---- MODULE Spec2Model ----
(***************************************************************************)
(* Binding operations of the MongoDB Atlas service broker                  *)
(* (pkg/broker/binding_operations.go): Bind, Unbind, GetBinding and the    *)
(* helpers generatePassword, userFromParams,                               *)
(* connectionStringParamsFromParams and buildConnectionString, run against *)
(* an Atlas backend holding clusters and database users.                   *)
(*                                                                         *)
(* Strings are sequences of characters.  A character is a one-character    *)
(* string; a run of letters and digits that no operation ever splits is    *)
(* written as one word ("host1").  Punctuation, "%" and the hex digits of  *)
(* percent-escapes are always single characters, so escaping, unescaping   *)
(* and URL parsing work character by character as net/url does.            *)
(***************************************************************************)
EXTENDS Integers, Sequences, FiniteSets, TLC

(***************************************************************************)
(* Characters                                                              *)
(***************************************************************************)

\* The characters of the model in byte order (words by their first letter).
Alphabet ==
    << " ", "#", "%", "&", "+", ",", "-", ".", "/",
       "0", "1", "2", "3", "4", "5", "6", "7", "8", "9",
       ":", ";", "=", "?", "@", "A", "B", "C", "D", "E", "F",
       "admin", "app", "authSource", "b1", "b2", "coll", "db", "evil",
       "false", "host1", "host2", "mongodb", "mongodb+srv", "pw", "read",
       "readWriteAnyDatabase", "retryWrites", "secretA", "secretB",
       "setup", "ssl", "standard", "true", "w", "~" >>

Rank(c) == CHOOSE i \in 1..Len(Alphabet) : Alphabet[i] = c

Digits == {"0", "1", "2", "3", "4", "5", "6", "7", "8", "9"}

HexDigits == Digits \cup {"A", "B", "C", "D", "E", "F"}

\* The punctuation of the model; every other character is alphanumeric.
Punctuation == {" ", "#", "%", "&", "+", ",", "-", ".", "/", ":", ";", "=", "?", "@"}

\* "%XX" of a character that net/url escapes.
HexOf(c) ==
    CASE c = " " -> <<"2", "0">>
      [] c = "#" -> <<"2", "3">>
      [] c = "%" -> <<"2", "5">>
      [] c = "&" -> <<"2", "6">>
      [] c = "+" -> <<"2", "B">>
      [] c = "," -> <<"2", "C">>
      [] c = "." -> <<"2", "E">>
      [] c = "/" -> <<"2", "F">>
      [] c = ":" -> <<"3", "A">>
      [] c = ";" -> <<"3", "B">>
      [] c = "=" -> <<"3", "D">>
      [] c = "?" -> <<"3", "F">>
      [] c = "@" -> <<"4", "0">>
      [] OTHER   -> <<"2", "D">>

\* The character a "%XX" stands for.  "~" stands for every byte that is not
\* a character of the model.
UnHex(h1, h2) ==
    LET known == {c \in Punctuation : HexOf(c) = <<h1, h2>>}
    IN  IF known # {} THEN CHOOSE c \in known : TRUE
        ELSE IF h1 = "3" /\ h2 \in Digits THEN h2
        ELSE IF h1 = "4" /\ h2 \in {"1", "2", "3", "4", "5", "6"}
             THEN <<"A", "B", "C", "D", "E", "F">>[Rank(h2) - Rank("0")]
        ELSE "~"

(***************************************************************************)
(* strings package                                                         *)
(***************************************************************************)

RECURSIVE Index(_, _)
\* strings.Index for a one-character separator: 0 when absent.
Index(s, c) ==
    IF s = <<>> THEN 0
    ELSE IF Head(s) = c THEN 1
    ELSE LET i == Index(Tail(s), c) IN IF i = 0 THEN 0 ELSE i + 1

RECURSIVE LastIndex(_, _)
LastIndex(s, c) ==
    IF s = <<>> THEN 0
    ELSE IF s[Len(s)] = c THEN Len(s)
    ELSE LastIndex(SubSeq(s, 1, Len(s) - 1), c)

Contains(s, c) == Index(s, c) # 0

\* strings.Cut
Cut(s, c) ==
    LET i == Index(s, c)
    IN  IF i = 0 THEN [before |-> s, after |-> <<>>, found |-> FALSE]
        ELSE [before |-> SubSeq(s, 1, i - 1),
              after  |-> SubSeq(s, i + 1, Len(s)),
              found  |-> TRUE]

HasPrefix2(s, c1, c2) == Len(s) >= 2 /\ s[1] = c1 /\ s[2] = c2

RECURSIVE StrLess(_, _)
\* s < t in byte order
StrLess(s, t) ==
    IF t = <<>> THEN FALSE
    ELSE IF s = <<>> THEN TRUE
    ELSE IF Head(s) = Head(t) THEN StrLess(Tail(s), Tail(t))
    ELSE Rank(Head(s)) < Rank(Head(t))

(***************************************************************************)
(* net/url                                                                 *)
(***************************************************************************)

\* shouldEscape(c, mode) for the modes "host", "path", "userpw", "query".
shouldEscape(c, mode) ==
    IF c \notin Punctuation THEN FALSE
    ELSE IF mode = "host" /\ c \in {"&", "+", ",", ";", "=", ":"} THEN FALSE
    ELSE IF c \in {"-", "."} THEN FALSE
    ELSE IF c \in {"&", "+", ",", "/", ":", ";", "=", "?", "@"}
         THEN CASE mode = "path"   -> c = "?"
                [] mode = "userpw" -> c \in {"@", "/", "?", ":"}
                [] mode = "query"  -> TRUE
                [] OTHER           -> TRUE
    ELSE TRUE

RECURSIVE escape(_, _)
\* escape(s, mode): percent-encode the characters shouldEscape selects;
\* a space of a query component becomes "+".
escape(s, mode) ==
    IF s = <<>> THEN <<>>
    ELSE LET c == Head(s)
             e == IF ~shouldEscape(c, mode) THEN <<c>>
                  ELSE IF c = " " /\ mode = "query" THEN <<"+">>
                  ELSE <<"%">> \o HexOf(c)
         IN  e \o escape(Tail(s), mode)

RECURSIVE unescape(_, _)
\* unescape(s, mode): [err, s].  A "%" not followed by two hex digits is an
\* error, and so is, in a host, an escape of an ASCII byte other than "%25"
\* or a raw character that a host may not contain.
unescape(s, mode) ==
    IF s = <<>> THEN [err |-> FALSE, s |-> <<>>]
    ELSE IF Head(s) = "%"
    THEN IF Len(s) < 3 \/ s[2] \notin HexDigits \/ s[3] \notin HexDigits
         THEN [err |-> TRUE, s |-> <<>>]
         ELSE IF /\ mode = "host"
                 /\ s[2] \in {"0", "1", "2", "3", "4", "5", "6", "7"}
                 /\ <<s[2], s[3]>> # <<"2", "5">>
         THEN [err |-> TRUE, s |-> <<>>]
         ELSE LET r == unescape(SubSeq(s, 4, Len(s)), mode)
              IN  IF r.err THEN r
                  ELSE [err |-> FALSE, s |-> <<UnHex(s[2], s[3])>> \o r.s]
    ELSE IF mode = "host" /\ shouldEscape(Head(s), "host")
    THEN [err |-> TRUE, s |-> <<>>]
    ELSE LET r == unescape(Tail(s), mode)
             c == IF mode = "query" /\ Head(s) = "+" THEN " " ELSE Head(s)
         IN  IF r.err THEN r ELSE [err |-> FALSE, s |-> <<c>> \o r.s]

\* *url.Userinfo; set = FALSE is the nil pointer.
NoUserinfo == [set |-> FALSE, username |-> <<>>, password |-> <<>>, passwordSet |-> FALSE]

\* url.UserPassword
UserPassword(username, password) ==
    [set |-> TRUE, username |-> username, password |-> password, passwordSet |-> TRUE]

\* Userinfo.String
UserinfoString(u) ==
    escape(u.username, "userpw")
        \o (IF u.passwordSet THEN <<":">> \o escape(u.password, "userpw") ELSE <<>>)

\* The zero url.URL
EmptyURL ==
    [Scheme |-> <<>>, Opaque |-> <<>>, User |-> NoUserinfo, Host |-> <<>>,
     Path |-> <<>>, RawPath |-> <<>>, ForceQuery |-> FALSE, RawQuery |-> <<>>,
     Fragment |-> <<>>]

URLError == [err |-> TRUE, url |-> EmptyURL]

\* getScheme: [err, scheme, rest]
getScheme(rawURL) ==
    IF rawURL = <<>> THEN [err |-> FALSE, scheme |-> <<>>, rest |-> rawURL]
    ELSE IF rawURL[1] = ":" THEN [err |-> TRUE, scheme |-> <<>>, rest |-> <<>>]
    ELSE IF rawURL[1] \in Punctuation \cup Digits
    THEN [err |-> FALSE, scheme |-> <<>>, rest |-> rawURL]
    ELSE IF Len(rawURL) >= 2 /\ rawURL[2] = ":"
    THEN [err |-> FALSE, scheme |-> <<rawURL[1]>>, rest |-> SubSeq(rawURL, 3, Len(rawURL))]
    ELSE [err |-> FALSE, scheme |-> <<>>, rest |-> rawURL]

\* validOptionalPort
validOptionalPort(port) ==
    \/ port = <<>>
    \/ /\ port[1] = ":"
       /\ \A i \in 2..Len(port) : port[i] \in Digits

\* parseHost: [err, s]
parseHost(host) ==
    LET i == LastIndex(host, ":")
    IN  IF i # 0 /\ ~validOptionalPort(SubSeq(host, i, Len(host)))
        THEN [err |-> TRUE, s |-> <<>>]
        ELSE unescape(host, "host")

\* validUserinfo
validUserinfo(s) ==
    \A i \in 1..Len(s) : s[i] \notin {" ", "#", "/", "?"}

\* parseAuthority: [err, user, host]
parseAuthority(authority) ==
    LET i        == LastIndex(authority, "@")
        h        == parseHost(SubSeq(authority, i + 1, Len(authority)))
        userinfo == SubSeq(authority, 1, i - 1)
        c        == Cut(userinfo, ":")
        name     == unescape(c.before, "userpw")
        pass     == unescape(c.after, "userpw")
        bad      == [err |-> TRUE, user |-> NoUserinfo, host |-> <<>>]
    IN  IF h.err THEN bad
        ELSE IF i = 0 THEN [err |-> FALSE, user |-> NoUserinfo, host |-> h.s]
        ELSE IF ~validUserinfo(userinfo) THEN bad
        ELSE IF name.err \/ pass.err THEN bad
        ELSE [err  |-> FALSE,
              user |-> [set |-> TRUE, username |-> name.s, password |-> pass.s,
                        passwordSet |-> c.found],
              host |-> h.s]

\* URL.setPath: [err, Path, RawPath]
setPath(p) ==
    LET path == unescape(p, "path")
    IN  IF path.err THEN [err |-> TRUE, Path |-> <<>>, RawPath |-> <<>>]
        ELSE [err     |-> FALSE,
              Path    |-> path.s,
              RawPath |-> IF p = escape(path.s, "path") THEN <<>> ELSE p]

\* url.Parse: [err, url]
Parse(rawURL) ==
    LET f       == Cut(rawURL, "#")
        sch     == getScheme(f.before)
        force   == /\ sch.rest # <<>>
                   /\ sch.rest[Len(sch.rest)] = "?"
                   /\ Index(sch.rest, "?") = Len(sch.rest)
        q       == Cut(sch.rest, "?")
        rest    == IF force THEN SubSeq(sch.rest, 1, Len(sch.rest) - 1) ELSE q.before
        query   == IF force THEN <<>> ELSE q.after
        rooted  == rest # <<>> /\ rest[1] = "/"
        hasAuth == HasPrefix2(rest, "/", "/")
        afterSl == SubSeq(rest, 3, Len(rest))
        slash   == Index(afterSl, "/")
        authStr == IF slash = 0 THEN afterSl ELSE SubSeq(afterSl, 1, slash - 1)
        pathStr == IF ~hasAuth THEN rest
                   ELSE IF slash = 0 THEN <<>>
                   ELSE SubSeq(afterSl, slash, Len(afterSl))
        auth    == IF hasAuth THEN parseAuthority(authStr)
                   ELSE [err |-> FALSE, user |-> NoUserinfo, host |-> <<>>]
        p       == setPath(pathStr)
        frag    == unescape(f.after, "path")
    IN  IF sch.err THEN URLError
        ELSE IF ~rooted /\ sch.scheme # <<>>
        THEN [err |-> FALSE,
              url |-> [EmptyURL EXCEPT !.Scheme = sch.scheme, !.Opaque = rest,
                                       !.ForceQuery = force, !.RawQuery = query,
                                       !.Fragment = IF frag.err THEN <<>> ELSE frag.s]]
        ELSE IF ~rooted /\ Contains(Cut(rest, "/").before, ":") THEN URLError
        ELSE IF auth.err \/ p.err \/ frag.err THEN URLError
        ELSE [err |-> FALSE,
              url |-> [Scheme |-> sch.scheme, Opaque |-> <<>>, User |-> auth.user,
                       Host |-> auth.host, Path |-> p.Path, RawPath |-> p.RawPath,
                       ForceQuery |-> force, RawQuery |-> query,
                       Fragment |-> frag.s]]

\* URL.EscapedPath
EscapedPath(u) ==
    LET raw == unescape(u.RawPath, "path")
    IN  IF u.RawPath # <<>> /\ ~raw.err /\ raw.s = u.Path THEN u.RawPath
        ELSE escape(u.Path, "path")

\* URL.String
URLString(u) ==
    LET scheme == IF u.Scheme # <<>> THEN u.Scheme \o <<":">> ELSE <<>>
        path   == EscapedPath(u)
        auth   == IF u.Scheme # <<>> \/ u.Host # <<>> \/ u.User.set
                  THEN (IF u.Host # <<>> \/ u.Path # <<>> \/ u.User.set
                        THEN <<"/", "/">> ELSE <<>>)
                       \o (IF u.User.set THEN UserinfoString(u.User) \o <<"@">> ELSE <<>>)
                       \o escape(u.Host, "host")
                  ELSE <<>>
        sep    == IF path # <<>> /\ path[1] # "/" /\ u.Host # <<>>
                  THEN <<"/">> ELSE <<>>
        dot    == IF /\ scheme = <<>> /\ auth = <<>> /\ sep = <<>>
                     /\ Contains(Cut(path, "/").before, ":")
                  THEN <<".", "/">> ELSE <<>>
        body   == IF u.Opaque # <<>> THEN u.Opaque ELSE auth \o sep \o dot \o path
    IN  scheme \o body
            \o (IF u.ForceQuery \/ u.RawQuery # <<>> THEN <<"?">> \o u.RawQuery ELSE <<>>)
            \o (IF u.Fragment # <<>> THEN <<"#">> \o escape(u.Fragment, "path") ELSE <<>>)

\* url.Values: a function from keys to the sequence of their values.
EmptyValues == [k \in {} |-> <<>>]

\* Values.Add as ParseQuery appends
ValuesAdd(m, key, value) ==
    [k \in DOMAIN m \cup {key} |->
        IF k = key THEN (IF key \in DOMAIN m THEN Append(m[key], value) ELSE <<value>>)
        ELSE m[k]]

\* The value added to the values the key has.
ValuesSet_Appended(m, key, value) ==
    [k \in DOMAIN m \cup {key} |->
        IF k = key THEN (IF key \in DOMAIN m THEN Append(m[key], value) ELSE <<value>>)
        ELSE m[k]]

\* Values.Set
ValuesSet(m, key, value) ==
    [k \in DOMAIN m \cup {key} |-> IF k = key THEN <<value>> ELSE m[k]]

RECURSIVE parseQuery(_, _)
\* parseQuery as URL.Query calls it: a pair with ";" or a bad escape, and an
\* empty pair, add nothing.
parseQuery(m, query) ==
    IF query = <<>> THEN m
    ELSE LET c   == Cut(query, "&")
             kv  == Cut(c.before, "=")
             key == unescape(kv.before, "query")
             val == unescape(kv.after, "query")
         IN  parseQuery(IF \/ Contains(c.before, ";") \/ c.before = <<>>
                           \/ key.err \/ val.err
                        THEN m ELSE ValuesAdd(m, key.s, val.s),
                        c.after)

\* URL.Query
Query(u) == parseQuery(EmptyValues, u.RawQuery)

RECURSIVE EncodePairs(_, _)
\* "key=v1&key=v2" for the values of one key
EncodePairs(key, vs) ==
    IF vs = <<>> THEN <<>>
    ELSE escape(key, "query") \o <<"=">> \o escape(Head(vs), "query")
            \o (IF Tail(vs) = <<>> THEN <<>> ELSE <<"&">> \o EncodePairs(key, Tail(vs)))

RECURSIVE EncodeKeys(_, _)
EncodeKeys(m, keys) ==
    IF keys = {} THEN <<>>
    ELSE LET k == CHOOSE x \in keys : \A y \in keys \ {x} : StrLess(x, y)
         IN  EncodePairs(k, m[k])
                \o (IF keys = {k} THEN <<>> ELSE <<"&">> \o EncodeKeys(m, keys \ {k}))

\* Values.Encode: "URL encoded" form sorted by key
Encode(m) == EncodeKeys(m, DOMAIN m)

(***************************************************************************)
(* strconv                                                                 *)
(***************************************************************************)

RECURSIVE FormatUint(_)
FormatUint(n) ==
    IF n < 10 THEN <<Alphabet[Rank("0") + n]>>
    ELSE FormatUint(n \div 10) \o <<Alphabet[Rank("0") + (n % 10)]>>

\* strconv.FormatInt(n, 10)
FormatInt(n) == IF n < 0 THEN <<"-">> \o FormatUint(-n) ELSE FormatUint(n)

\* strconv.FormatBool
FormatBool(b) == IF b THEN <<"true">> ELSE <<"false">>

\* The float64 rounded to the nearest integer instead.
Int64OfFloat_Rounded(num, den) ==
    IF num >= 0 THEN (2 * num + den) \div (2 * den) ELSE -((2 * (-num) + den) \div (2 * den))

\* int64(v) of the float64 num/den: the fraction is discarded (toward zero)
Int64OfFloat(num, den) == IF num >= 0 THEN num \div den ELSE -((-num) \div den)

(***************************************************************************)
(* encoding/json into the parameter structs                                *)
(*                                                                         *)
(* Raw parameters are [kind |-> "empty"] (no bytes), [kind |-> "malformed"]*)
(* (bytes that are not JSON) or [kind |-> "json", v |-> value].  A JSON    *)
(* value is tagged by t: "null", "bool" (b), "number" (num/den), "string"  *)
(* (s), "array" (a, a sequence of values) or "object" (o, a record of the  *)
(* members present; the free-form options object has m, a function from    *)
(* member names to values, instead).                                       *)
(***************************************************************************)

JNull == [t |-> "null"]
JBool(b) == [t |-> "bool", b |-> b]
JNumber(num, den) == [t |-> "number", num |-> num, den |-> den]
JString(str) == [t |-> "string", s |-> str]
JArray(a) == [t |-> "array", a |-> a]
JObject(o) == [t |-> "object", o |-> o]
JMap(m) == [t |-> "object", m |-> m]

\* A string member decoded over the current value: null leaves it alone,
\* any other type is an UnmarshalTypeError.
DecodeString(o, name, cur) ==
    IF name \notin DOMAIN o THEN [err |-> FALSE, v |-> cur]
    ELSE IF o[name].t = "string" THEN [err |-> FALSE, v |-> o[name].s]
    ELSE IF o[name].t = "null" THEN [err |-> FALSE, v |-> cur]
    ELSE [err |-> TRUE, v |-> cur]

DecodeBool(o, name, cur) ==
    IF name \notin DOMAIN o THEN [err |-> FALSE, v |-> cur]
    ELSE IF o[name].t = "bool" THEN [err |-> FALSE, v |-> o[name].b]
    ELSE IF o[name].t = "null" THEN [err |-> FALSE, v |-> cur]
    ELSE [err |-> TRUE, v |-> cur]

\* atlas.Role
ZeroRole == [Name |-> <<>>, DatabaseName |-> <<>>, CollectionName |-> <<>>]

DecodeRole(v) ==
    IF v.t = "null" THEN [err |-> FALSE, v |-> ZeroRole]
    ELSE IF v.t # "object" THEN [err |-> TRUE, v |-> ZeroRole]
    ELSE LET n == DecodeString(v.o, "roleName", <<>>)
             d == DecodeString(v.o, "databaseName", <<>>)
             c == DecodeString(v.o, "collectionName", <<>>)
         IN  [err |-> n.err \/ d.err \/ c.err,
              v   |-> [Name |-> n.v, DatabaseName |-> d.v, CollectionName |-> c.v]]

\* The roles member into []atlas.Role: null gives the nil slice.
DecodeRoles(o, cur) ==
    IF "roles" \notin DOMAIN o THEN [err |-> FALSE, v |-> cur]
    ELSE IF o.roles.t = "null" THEN [err |-> FALSE, v |-> <<>>]
    ELSE IF o.roles.t # "array" THEN [err |-> TRUE, v |-> cur]
    ELSE [err |-> \E i \in 1..Len(o.roles.a) : DecodeRole(o.roles.a[i]).err,
          v   |-> [i \in 1..Len(o.roles.a) |-> DecodeRole(o.roles.a[i]).v]]

\* &atlas.User{}; nil = TRUE is the nil pointer.
ZeroUser ==
    [nil |-> FALSE, Username |-> <<>>, Password |-> <<>>,
     LDAPAuthType |-> <<>>, Roles |-> <<>>]

NilUser == [ZeroUser EXCEPT !.nil = TRUE]

\* json.Unmarshal(rawParams, &params) of userFromParams: [err, User]
UnmarshalUser(rawParams, user) ==
    IF rawParams.kind = "malformed" THEN [err |-> TRUE, User |-> user]
    ELSE IF rawParams.v.t = "null" THEN [err |-> FALSE, User |-> user]
    ELSE IF rawParams.v.t # "object" THEN [err |-> TRUE, User |-> user]
    ELSE IF "user" \notin DOMAIN rawParams.v.o THEN [err |-> FALSE, User |-> user]
    ELSE LET u == rawParams.v.o.user
         IN  IF u.t = "null" THEN [err |-> FALSE, User |-> NilUser]
             ELSE IF u.t # "object" THEN [err |-> TRUE, User |-> user]
             ELSE LET n == DecodeString(u.o, "username", user.Username)
                      w == DecodeString(u.o, "password", user.Password)
                      l == DecodeString(u.o, "ldapAuthType", user.LDAPAuthType)
                      r == DecodeRoles(u.o, user.Roles)
                  IN  [err  |-> n.err \/ w.err \/ l.err \/ r.err,
                       User |-> [nil |-> FALSE, Username |-> n.v, Password |-> w.v,
                                 LDAPAuthType |-> l.v, Roles |-> r.v]]

\* map[string]interface{}; nil = TRUE is the nil map.
NilOptions == [nil |-> TRUE, m |-> EmptyValues]

\* &ConnectionStringParams{}; nil = TRUE is the nil pointer.
ZeroConnectionStringParams ==
    [nil |-> FALSE, SkipCredentials |-> FALSE, Database |-> <<>>,
     Options |-> NilOptions, Format |-> <<>>]

NilConnectionStringParams == [ZeroConnectionStringParams EXCEPT !.nil = TRUE]

DecodeOptions(o, cur) ==
    IF "options" \notin DOMAIN o THEN [err |-> FALSE, v |-> cur]
    ELSE IF o.options.t = "null" THEN [err |-> FALSE, v |-> NilOptions]
    ELSE IF o.options.t # "object" THEN [err |-> TRUE, v |-> cur]
    ELSE [err |-> FALSE, v |-> [nil |-> FALSE, m |-> o.options.m]]

\* json.Unmarshal(rawParams, &params) of connectionStringParamsFromParams
UnmarshalConnectionStringParams(rawParams, csp) ==
    IF rawParams.kind = "malformed" THEN [err |-> TRUE, Params |-> csp]
    ELSE IF rawParams.v.t = "null" THEN [err |-> FALSE, Params |-> csp]
    ELSE IF rawParams.v.t # "object" THEN [err |-> TRUE, Params |-> csp]
    ELSE IF "connectionString" \notin DOMAIN rawParams.v.o
    THEN [err |-> FALSE, Params |-> csp]
    ELSE LET c == rawParams.v.o.connectionString
         IN  IF c.t = "null" THEN [err |-> FALSE, Params |-> NilConnectionStringParams]
             ELSE IF c.t # "object" THEN [err |-> TRUE, Params |-> csp]
             ELSE LET k == DecodeBool(c.o, "skipCredentials", csp.SkipCredentials)
                      d == DecodeString(c.o, "database", csp.Database)
                      o == DecodeOptions(c.o, csp.Options)
                      f == DecodeString(c.o, "format", csp.Format)
                  IN  [err    |-> k.err \/ d.err \/ o.err \/ f.err,
                       Params |-> [nil |-> FALSE, SkipCredentials |-> k.v,
                                   Database |-> d.v, Options |-> o.v, Format |-> f.v]]

(***************************************************************************)
(* pkg/broker/binding_operations.go: the helpers                           *)
(***************************************************************************)

\* The role a user gets when the caller names none.
DefaultRole ==
    [Name |-> <<"readWriteAnyDatabase">>, DatabaseName |-> <<"admin">>,
     CollectionName |-> <<>>]

\* userFromParams assigning the binding ID and the password before the
\* parameters are decoded, so that the caller's members replace them.
userFromParams_CallerIdentity(bindingID, password, rawParams) ==
    LET u0  == [ZeroUser EXCEPT !.Username = bindingID, !.Password = password]
        dec == IF rawParams.kind # "empty" THEN UnmarshalUser(rawParams, u0)
               ELSE [err |-> FALSE, User |-> u0]
        u2  == IF Len(dec.User.Roles) = 0 THEN [dec.User EXCEPT !.Roles = <<DefaultRole>>]
               ELSE dec.User
    IN  IF dec.err THEN [status |-> "err", user |-> NilUser]
        ELSE IF dec.User.nil THEN [status |-> "panic", user |-> NilUser]
        ELSE [status |-> "ok", user |-> u2]

\* userFromParams dropping the decoder's error.
userFromParams_ErrorDropped(bindingID, password, rawParams) ==
    LET dec == IF rawParams.kind # "empty" THEN UnmarshalUser(rawParams, ZeroUser)
               ELSE [err |-> FALSE, User |-> ZeroUser]
        u1  == [dec.User EXCEPT !.Username = bindingID, !.Password = password]
        u2  == IF Len(u1.Roles) = 0 THEN [u1 EXCEPT !.Roles = <<DefaultRole>>] ELSE u1
    IN  IF dec.User.nil THEN [status |-> "panic", user |-> NilUser]
        ELSE [status |-> "ok", user |-> u2]

\* userFromParams adding the default role to whatever roles there are.
userFromParams_DefaultRoleAdded(bindingID, password, rawParams) ==
    LET dec == IF rawParams.kind # "empty" THEN UnmarshalUser(rawParams, ZeroUser)
               ELSE [err |-> FALSE, User |-> ZeroUser]
        u1  == [dec.User EXCEPT !.Username = bindingID, !.Password = password]
        u2  == [u1 EXCEPT !.Roles = Append(@, DefaultRole)]
    IN  IF dec.err THEN [status |-> "err", user |-> NilUser]
        ELSE IF dec.User.nil THEN [status |-> "panic", user |-> NilUser]
        ELSE [status |-> "ok", user |-> u2]

\* userFromParams: [status, user] with status "ok", "err" (the decoder's
\* error) or "panic" (params.User is nil when the username is assigned).
userFromParams(bindingID, password, rawParams) ==
    LET dec == IF rawParams.kind # "empty" THEN UnmarshalUser(rawParams, ZeroUser)
               ELSE [err |-> FALSE, User |-> ZeroUser]
        u1  == [dec.User EXCEPT !.Username = bindingID, !.Password = password]
        u2  == IF Len(u1.Roles) = 0 THEN [u1 EXCEPT !.Roles = <<DefaultRole>>] ELSE u1
    IN  IF dec.err THEN [status |-> "err", user |-> NilUser]
        ELSE IF dec.User.nil THEN [status |-> "panic", user |-> NilUser]
        ELSE [status |-> "ok", user |-> u2]

\* connectionStringParamsFromParams: [status, params]
connectionStringParamsFromParams(rawParams) ==
    LET dec == IF rawParams.kind # "empty"
               THEN UnmarshalConnectionStringParams(rawParams, ZeroConnectionStringParams)
               ELSE [err |-> FALSE, Params |-> ZeroConnectionStringParams]
    IN  IF dec.err THEN [status |-> "err", params |-> NilConnectionStringParams]
        ELSE [status |-> "ok", params |-> dec.Params]

\* len(connectionStringParams.Options)
OptionsLen(options) == IF options.nil THEN 0 ELSE Cardinality(DOMAIN options.m)

RECURSIVE rangeOptions(_, _, _)
\* The loop over Options: strings, numbers and booleans are set in q, a value
\* of any other type sets nothing.
rangeOptions(q, m, keys) ==
    IF keys = {} THEN q
    ELSE LET key == CHOOSE k \in keys : TRUE
             v   == m[key]
             q1  == CASE v.t = "string" -> ValuesSet(q, key, v.s)
                      [] v.t = "number" -> ValuesSet(q, key, FormatInt(Int64OfFloat(v.num, v.den)))
                      [] v.t = "bool"   -> ValuesSet(q, key, FormatBool(v.b))
                      [] OTHER          -> q
         IN  rangeOptions(q1, m, keys \ {key})

\* The addresses taken the other way round.
clusterAddress_Swapped(connectionStringParams, cluster) ==
    IF connectionStringParams.Format = <<"standard">>
    THEN cluster.SrvAddress
    ELSE cluster.MongoURIWithOptions

\* The address buildConnectionString starts from: the verbose one for the
\* format "standard", the abbreviated one for every other format.
clusterAddress(connectionStringParams, cluster) ==
    IF connectionStringParams.Format = <<"standard">>
    THEN cluster.MongoURIWithOptions
    ELSE cluster.SrvAddress

\* The credentials set when SkipCredentials asks to leave them out.
withCredentials_Inverted(url, connectionStringParams, bindingID, password) ==
    IF connectionStringParams.SkipCredentials
    THEN [url EXCEPT !.User = UserPassword(bindingID, password)]
    ELSE url

\* connectionStringURL.User, set unless SkipCredentials.
withCredentials(url, connectionStringParams, bindingID, password) ==
    IF ~connectionStringParams.SkipCredentials
    THEN [url EXCEPT !.User = UserPassword(bindingID, password)]
    ELSE url

\* connectionStringURL.Path, set to a Database that is not empty.
withDatabase(url, connectionStringParams) ==
    IF Len(connectionStringParams.Database) > 0
    THEN [url EXCEPT !.Path = connectionStringParams.Database]
    ELSE url

\* The options merged whenever the map is not nil, be it empty.
withOptions_NotNil(url, connectionStringParams) ==
    IF ~connectionStringParams.Options.nil
    THEN [url EXCEPT !.RawQuery = Encode(rangeOptions(Query(url),
                                                      connectionStringParams.Options.m,
                                                      DOMAIN connectionStringParams.Options.m)),
                     !.Path = IF Len(url.Path) = 0 THEN <<"/">> ELSE @]
    ELSE url

\* connectionStringURL.RawQuery and the path "/", set when there are Options.
withOptions(url, connectionStringParams) ==
    IF OptionsLen(connectionStringParams.Options) > 0
    THEN [url EXCEPT !.RawQuery = Encode(rangeOptions(Query(url),
                                                      connectionStringParams.Options.m,
                                                      DOMAIN connectionStringParams.Options.m)),
                     !.Path = IF Len(url.Path) = 0 THEN <<"/">> ELSE @]
    ELSE url

\* buildConnectionString once the address is parsed.
buildFromAddress(parsed, connectionStringParams, bindingID, password) ==
    IF parsed.err THEN [status |-> "err", s |-> <<>>]
    ELSE [status |-> "ok",
          s |-> URLString(withOptions(withDatabase(withCredentials(parsed.url,
                                                                    connectionStringParams,
                                                                    bindingID, password),
                                                    connectionStringParams),
                                       connectionStringParams))]

\* buildConnectionString: [status, s] with status "ok", "err" (url.Parse
\* failed) or "panic" (connectionStringParams is nil).
buildConnectionString(connectionStringParams, cluster, bindingID, password) ==
    IF connectionStringParams.nil THEN [status |-> "panic", s |-> <<>>]
    ELSE buildFromAddress(Parse(clusterAddress(connectionStringParams, cluster)),
                          connectionStringParams, bindingID, password)

(***************************************************************************)
(* The Atlas backend and the requests                                      *)
(***************************************************************************)

VARIABLES
    clusters,   \* Atlas: cluster name -> "ABSENT" (GetCluster finds none) or the
                \* cluster's StateName: "CREATING", "IDLE", "UPDATING", "DELETING", "DELETED"
    users,      \* Atlas: username -> the database user's definition
    req         \* request slot -> the request it serves and where it stands

vars == <<clusters, users, req>>

\* Instance IDs of the platform and the cluster names they normalise to.
InstanceIDs == {"i1", "i2", "i3"}

ClusterNames == {"c1", "c2", "c3"}

\* NormalizeClusterName: a deterministic, injective renaming.
NormalizeClusterName(instanceID) ==
    CASE instanceID = "i1" -> "c1"
      [] instanceID = "i2" -> "c2"
      [] OTHER             -> "c3"

\* The addresses Atlas reports for a cluster.  Cluster c2 reports a verbose
\* address that url.Parse rejects (a truncated percent-escape); cluster c3
\* reports the verbose address of the documentation's example.
ClusterRecord(name) ==
    IF name = "c3"
    THEN [Name |-> name,
          SrvAddress |-> <<"mongodb+srv", ":", "/", "/", "host1">>,
          MongoURIWithOptions |->
              <<"mongodb", ":", "/", "/", "host1", ",", "host2",
                "/", "?", "ssl", "=", "true">>]
    ELSE IF name = "c1"
    THEN [Name |-> name,
          SrvAddress |-> <<"mongodb+srv", ":", "/", "/", "host1">>,
          MongoURIWithOptions |->
              <<"mongodb", ":", "/", "/", "host1", ":", "2", "7", ",", "host2", ":", "2", "7",
                "/", "?", "ssl", "=", "true", "&", "authSource", "=", "admin">>]
    ELSE [Name |-> name,
          SrvAddress |-> <<"mongodb+srv", ":", "/", "/", "host2">>,
          MongoURIWithOptions |-> <<"mongodb", ":", "/", "/", "host2", "%", "2">>]

NoCluster == [Name |-> "none", SrvAddress |-> <<>>, MongoURIWithOptions |-> <<>>]

\* The IDs of the catalog.
ServiceIDs == {"aosb-cluster-service-aws"}

PlanIDs == {"aosb-cluster-plan-aws-m10"}

\* brokerapi.FailureResponse status of GetBinding
StatusNotFound == 404

NoCredentials ==
    [set |-> FALSE, Username |-> <<>>, Password |-> <<>>, URI |-> <<>>,
     ConnectionString |-> <<>>]

NoResult == [status |-> "none", err |-> "", code |-> 0, credentials |-> NoCredentials]

Failure(kind) == [status |-> "err", err |-> kind, code |-> 0, credentials |-> NoCredentials]

Panic == [status |-> "panic", err |-> "", code |-> 0, credentials |-> NoCredentials]

NoDetails ==
    [HasClient |-> FALSE, ServiceID |-> "", PlanID |-> "", RawParameters |-> [kind |-> "empty"]]

IdleReq ==
    [pc |-> "idle", op |-> "none", instanceID |-> "none", bindingID |-> <<>>,
     details |-> NoDetails, cluster |-> NoCluster, password |-> <<>>,
     user |-> NilUser, sent |-> NilUser, params |-> NilConnectionStringParams,
     calls |-> <<>>, at |-> "none", result |-> NoResult,
     operation |-> "none", answer |-> "none", state |-> "none",
     clusterAtCreate |-> "none"]

\* The secrets generatePassword can return: base64.URLEncoding of 32 random
\* bytes is 43 characters of the URL-safe alphabet and one "=" of padding.
Secrets == {<<"secretA", "=">>, <<"secretB", "-", "=">>}

\* The request slots: requests are served one after the other.
Procs == {"r1"}

Init ==
    /\ clusters = [n \in ClusterNames |-> "ABSENT"]
    /\ users = EmptyValues
    /\ req = [p \in Procs |-> IdleReq]

Free(p) == req[p].pc = "idle"

\* The handler returns at the step "at" with the given result.
Finish(r, at, result) == [r EXCEPT !.pc = "done", !.at = at, !.result = result]

\* The platform takes the handler's answer; the slot serves the next request.
Respond(p) ==
    /\ req[p].pc = "done"
    /\ req' = [req EXCEPT ![p] = IdleReq]
    /\ UNCHANGED <<clusters, users>>

(***************************************************************************)
(* Atlas as the integration test drives it                                 *)
(***************************************************************************)

\* setupInstance: CreateCluster and wait for the state "idle".
SetupInstance(instanceID) ==
    /\ clusters[NormalizeClusterName(instanceID)] = "ABSENT"
    /\ clusters' = [clusters EXCEPT ![NormalizeClusterName(instanceID)] = "IDLE"]
    /\ UNCHANGED <<users, req>>

\* teardownInstance: DeleteCluster.
TeardownInstance(instanceID) ==
    /\ clusters[NormalizeClusterName(instanceID)] # "ABSENT"
    /\ clusters' = [clusters EXCEPT ![NormalizeClusterName(instanceID)] = "ABSENT"]
    /\ UNCHANGED <<users, req>>

\* client.CreateUser on the users table
WithUser(us, user) ==
    [n \in DOMAIN us \cup {user.Username} |-> IF n = user.Username THEN user ELSE us[n]]

\* client.DeleteUser on the users table
WithoutUser(us, name) == [n \in DOMAIN us \ {name} |-> us[n]]

\* setupBinding: CreateUser with the binding ID as username, a random
\* password and the default role.
SetupBinding(bindingID) ==
    /\ bindingID \notin DOMAIN users
    /\ users' = WithUser(users, [ZeroUser EXCEPT !.Username = bindingID,
                                                 !.Password = <<"setup">>,
                                                 !.Roles = <<DefaultRole>>])
    /\ UNCHANGED <<clusters, req>>

\* teardownBinding: DeleteUser.
TeardownBinding(bindingID) ==
    /\ bindingID \in DOMAIN users
    /\ users' = WithoutUser(users, bindingID)
    /\ UNCHANGED <<clusters, req>>

(***************************************************************************)
(* Broker.Bind                                                             *)
(***************************************************************************)

\* Bind without the lookup of the plan ID.
BindBegin_NoPlanLookup(p, instanceID, bindingID, details) ==
    /\ Free(p)
    /\ LET r == [IdleReq EXCEPT !.op = "Bind", !.instanceID = instanceID,
                                !.bindingID = bindingID, !.details = details]
       IN  req' = [req EXCEPT ![p] =
                IF ~details.HasClient THEN Finish(r, "Bind_validate", Failure("NoClient"))
                ELSE IF details.ServiceID \notin ServiceIDs
                THEN Finish(r, "Bind_validate", Failure("InvalidServiceID"))
                ELSE [r EXCEPT !.pc = "Bind_GetCluster"]]
    /\ UNCHANGED <<clusters, users>>

\* Bind up to the catalog lookups: the Atlas client of the context, then
\* findProviderByServiceID and findInstanceSizeByPlanID.
BindBegin(p, instanceID, bindingID, details) ==
    /\ Free(p)
    /\ LET r == [IdleReq EXCEPT !.op = "Bind", !.instanceID = instanceID,
                                !.bindingID = bindingID, !.details = details]
       IN  req' = [req EXCEPT ![p] =
                IF ~details.HasClient THEN Finish(r, "Bind_validate", Failure("NoClient"))
                ELSE IF details.ServiceID \notin ServiceIDs
                THEN Finish(r, "Bind_validate", Failure("InvalidServiceID"))
                ELSE IF details.PlanID \notin PlanIDs
                THEN Finish(r, "Bind_validate", Failure("InvalidPlanID"))
                ELSE [r EXCEPT !.pc = "Bind_GetCluster"]]
    /\ UNCHANGED <<clusters, users>>

\* client.GetCluster(NormalizeClusterName(instanceID))
BindGetCluster(p) ==
    /\ req[p].pc = "Bind_GetCluster"
    /\ LET r    == [req[p] EXCEPT !.calls = Append(@, "GetCluster")]
           name == NormalizeClusterName(r.instanceID)
       IN  \/ /\ clusters[name] # "ABSENT"
              /\ req' = [req EXCEPT ![p] = [r EXCEPT !.pc = "Bind_generatePassword",
                                                     !.cluster = ClusterRecord(name)]]
           \/ /\ clusters[name] = "ABSENT"
              /\ req' = [req EXCEPT ![p] = Finish(r, "Bind_GetCluster", Failure("ClusterNotFound"))]
           \/ req' = [req EXCEPT ![p] = Finish(r, "Bind_GetCluster", Failure("BackendError"))]
    /\ UNCHANGED <<clusters, users>>

\* generatePassword: a fresh secret, or the error of rand.Read.
BindGeneratePassword(p) ==
    /\ req[p].pc = "Bind_generatePassword"
    /\ \/ \E secret \in Secrets :
              req' = [req EXCEPT ![p] = [@ EXCEPT !.pc = "Bind_userFromParams",
                                                  !.password = secret]]
       \/ req' = [req EXCEPT ![p] = Finish(@, "Bind_generatePassword", Failure("PasswordGeneration"))]
    /\ UNCHANGED <<clusters, users>>

\* Bind going on to the connection string before the user is created.
BindUserFromParams_ConnectionStringFirst(p) ==
    /\ req[p].pc = "Bind_userFromParams"
    /\ LET r == req[p]
           u == userFromParams(r.bindingID, r.password, r.details.RawParameters)
       IN  req' = [req EXCEPT ![p] =
                CASE u.status = "ok"    -> [r EXCEPT !.pc = "Bind_connectionStringParams",
                                                     !.user = u.user]
                  [] u.status = "err"   -> Finish(r, "Bind_userFromParams", Failure("MalformedParameters"))
                  [] u.status = "panic" -> Finish(r, "Bind_userFromParams", Panic)]
    /\ UNCHANGED <<clusters, users>>

\* userFromParams(bindingID, password, details.RawParameters)
BindUserFromParams(p) ==
    /\ req[p].pc = "Bind_userFromParams"
    /\ LET r == req[p]
           u == userFromParams(r.bindingID, r.password, r.details.RawParameters)
       IN  req' = [req EXCEPT ![p] =
                CASE u.status = "ok"    -> [r EXCEPT !.pc = "Bind_CreateUser", !.user = u.user]
                  [] u.status = "err"   -> Finish(r, "Bind_userFromParams", Failure("MalformedParameters"))
                  [] u.status = "panic" -> Finish(r, "Bind_userFromParams", Panic)]
    /\ UNCHANGED <<clusters, users>>

\* CreateUser called again when Atlas fails.
BindCreateUser_Retried(p) ==
    /\ req[p].pc = "Bind_CreateUser"
    /\ LET r == [req[p] EXCEPT !.calls = Append(@, "CreateUser"), !.sent = req[p].user]
       IN  \/ /\ r.user.Username \notin DOMAIN users
              /\ users' = WithUser(users, r.user)
              /\ req' = [req EXCEPT ![p] =
                            [r EXCEPT !.pc = "Bind_connectionStringParams",
                                      !.clusterAtCreate =
                                          clusters[NormalizeClusterName(r.instanceID)]]]
           \/ /\ r.user.Username \in DOMAIN users
              /\ req' = [req EXCEPT ![p] = Finish(r, "Bind_CreateUser", Failure("UserExists"))]
              /\ UNCHANGED users
           \/ /\ req' = [req EXCEPT ![p] = r]
              /\ UNCHANGED users
    /\ UNCHANGED clusters

\* The password kept in one place for all requests: CreateUser sends the
\* password of whichever request generated one.
BindCreateUser_SharedPassword(p) ==
    /\ req[p].pc = "Bind_CreateUser"
    /\ LET others == {q \in DOMAIN req : q # p /\ req[q].password # <<>>}
           shared == IF others = {} THEN req[p].user.Password
                     ELSE req[CHOOSE q \in others : TRUE].password
           u == IF req[p].user.Password = req[p].password
                THEN [req[p].user EXCEPT !.Password = shared]
                ELSE req[p].user
           r == [req[p] EXCEPT !.calls = Append(@, "CreateUser"), !.sent = u]
       IN  \/ /\ u.Username \notin DOMAIN users
              /\ users' = WithUser(users, u)
              /\ req' = [req EXCEPT ![p] =
                            [r EXCEPT !.pc = "Bind_connectionStringParams",
                                      !.clusterAtCreate =
                                          clusters[NormalizeClusterName(r.instanceID)]]]
           \/ /\ u.Username \in DOMAIN users
              /\ req' = [req EXCEPT ![p] = Finish(r, "Bind_CreateUser", Failure("UserExists"))]
              /\ UNCHANGED users
           \/ /\ req' = [req EXCEPT ![p] = Finish(r, "Bind_CreateUser", Failure("BackendError"))]
              /\ UNCHANGED users
    /\ UNCHANGED clusters

\* client.CreateUser(*user): Atlas refuses a username it already has.
\* clusterAtCreate is a history field: the state the cluster of the instance
\* was in when Atlas created the user.
BindCreateUser(p) ==
    /\ req[p].pc = "Bind_CreateUser"
    /\ LET r == [req[p] EXCEPT !.calls = Append(@, "CreateUser"), !.sent = req[p].user]
       IN  \/ /\ r.user.Username \notin DOMAIN users
              /\ users' = WithUser(users, r.user)
              /\ req' = [req EXCEPT ![p] =
                            [r EXCEPT !.pc = "Bind_connectionStringParams",
                                      !.clusterAtCreate =
                                          clusters[NormalizeClusterName(r.instanceID)]]]
           \/ /\ r.user.Username \in DOMAIN users
              /\ req' = [req EXCEPT ![p] = Finish(r, "Bind_CreateUser", Failure("UserExists"))]
              /\ UNCHANGED users
           \/ /\ req' = [req EXCEPT ![p] = Finish(r, "Bind_CreateUser", Failure("BackendError"))]
              /\ UNCHANGED users
    /\ UNCHANGED clusters

\* connectionStringParamsFromParams(details.RawParameters)
BindConnectionStringParams(p) ==
    /\ req[p].pc = "Bind_connectionStringParams"
    /\ LET r == req[p]
           c == connectionStringParamsFromParams(r.details.RawParameters)
       IN  req' = [req EXCEPT ![p] =
                IF c.status = "ok"
                THEN [r EXCEPT !.pc = "Bind_buildConnectionString", !.params = c.params]
                ELSE Finish(r, "Bind_connectionStringParams", Failure("MalformedParameters"))]
    /\ UNCHANGED <<clusters, users>>

\* The end of Bind: the error of buildConnectionString, or the
\* brokerapi.Binding with the ConnectionDetails.
BindReturn(r, c) ==
    CASE c.status = "ok" ->
             Finish(r, "Bind_buildConnectionString",
                    [status |-> "ok", err |-> "", code |-> 0,
                     credentials |-> [set |-> TRUE,
                                      Username |-> r.bindingID,
                                      Password |-> r.password,
                                      URI |-> r.cluster.SrvAddress,
                                      ConnectionString |-> c.s]])
      [] c.status = "err"   -> Finish(r, "Bind_buildConnectionString", Failure("InvalidAddress"))
      [] c.status = "panic" -> Finish(r, "Bind_buildConnectionString", Panic)

\* buildConnectionString and the return
BindBuildConnectionString(p) ==
    /\ req[p].pc = "Bind_buildConnectionString"
    /\ req' = [req EXCEPT ![p] =
                  BindReturn(@, buildConnectionString(@.params, @.cluster,
                                                      @.bindingID, @.password))]
    /\ UNCHANGED <<clusters, users>>

(***************************************************************************)
(* Broker.Unbind and Broker.GetBinding                                     *)
(***************************************************************************)

\* Unbind up to the Atlas client of the context.
UnbindBegin(p, instanceID, bindingID, hasClient) ==
    /\ Free(p)
    /\ LET r == [IdleReq EXCEPT !.op = "Unbind", !.instanceID = instanceID,
                                !.bindingID = bindingID,
                                !.details = [NoDetails EXCEPT !.HasClient = hasClient]]
       IN  req' = [req EXCEPT ![p] =
                IF ~hasClient THEN Finish(r, "Unbind_client", Failure("NoClient"))
                ELSE [r EXCEPT !.pc = "Unbind_GetCluster"]]
    /\ UNCHANGED <<clusters, users>>

\* Unbind going on to DeleteUser whatever GetCluster answers.
UnbindGetCluster_ErrorIgnored(p) ==
    /\ req[p].pc = "Unbind_GetCluster"
    /\ req' = [req EXCEPT ![p] = [@ EXCEPT !.calls = Append(@, "GetCluster"),
                                           !.pc = "Unbind_DeleteUser"]]
    /\ UNCHANGED <<clusters, users>>

\* client.GetCluster(NormalizeClusterName(instanceID))
UnbindGetCluster(p) ==
    /\ req[p].pc = "Unbind_GetCluster"
    /\ LET r    == [req[p] EXCEPT !.calls = Append(@, "GetCluster")]
           name == NormalizeClusterName(r.instanceID)
       IN  \/ /\ clusters[name] # "ABSENT"
              /\ req' = [req EXCEPT ![p] = [r EXCEPT !.pc = "Unbind_DeleteUser"]]
           \/ /\ clusters[name] = "ABSENT"
              /\ req' = [req EXCEPT ![p] = Finish(r, "Unbind_GetCluster", Failure("ClusterNotFound"))]
           \/ req' = [req EXCEPT ![p] = Finish(r, "Unbind_GetCluster", Failure("BackendError"))]
    /\ UNCHANGED <<clusters, users>>

\* Unbind returning success whatever DeleteUser answers.
UnbindDeleteUser_ErrorDropped(p) ==
    /\ req[p].pc = "Unbind_DeleteUser"
    /\ LET r  == [req[p] EXCEPT !.calls = Append(@, "DeleteUser")]
           ok == Finish(r, "Unbind_DeleteUser", [status |-> "ok", err |-> "", code |-> 0,
                                                 credentials |-> NoCredentials])
       IN  \/ /\ r.bindingID \in DOMAIN users
              /\ users' = WithoutUser(users, r.bindingID)
              /\ req' = [req EXCEPT ![p] = ok]
           \/ /\ req' = [req EXCEPT ![p] = ok]
              /\ UNCHANGED users
    /\ UNCHANGED clusters

\* client.DeleteUser(bindingID) and the returned brokerapi.UnbindSpec
UnbindDeleteUser(p) ==
    /\ req[p].pc = "Unbind_DeleteUser"
    /\ LET r == [req[p] EXCEPT !.calls = Append(@, "DeleteUser")]
       IN  \/ /\ r.bindingID \in DOMAIN users
              /\ users' = WithoutUser(users, r.bindingID)
              /\ req' = [req EXCEPT ![p] =
                            Finish(r, "Unbind_DeleteUser", [status |-> "ok", err |-> "", code |-> 0,
                                          credentials |-> NoCredentials])]
           \/ /\ r.bindingID \notin DOMAIN users
              /\ req' = [req EXCEPT ![p] = Finish(r, "Unbind_DeleteUser", Failure("UserNotFound"))]
              /\ UNCHANGED users
           \/ /\ req' = [req EXCEPT ![p] = Finish(r, "Unbind_DeleteUser", Failure("BackendError"))]
              /\ UNCHANGED users
    /\ UNCHANGED clusters

\* GetBinding answering from the backend's users.
GetBinding_FromBackend(p, instanceID, bindingID) ==
    /\ Free(p)
    /\ LET r == [IdleReq EXCEPT !.op = "GetBinding", !.instanceID = instanceID,
                                !.bindingID = bindingID, !.calls = <<"GetUser">>]
       IN  req' = [req EXCEPT ![p] =
                IF bindingID \in DOMAIN users
                THEN Finish(r, "GetBinding",
                            [status |-> "ok", err |-> "", code |-> 0,
                             credentials |-> [set |-> TRUE, Username |-> bindingID,
                                              Password |-> users[bindingID].Password,
                                              URI |-> <<>>, ConnectionString |-> <<>>]])
                ELSE Finish(r, "GetBinding",
                            [status |-> "err", err |-> "UnknownBindingID",
                             code |-> StatusNotFound, credentials |-> NoCredentials])]
    /\ UNCHANGED <<clusters, users>>

\* GetBinding: a 404 failure response, whatever the IDs.
GetBinding(p, instanceID, bindingID) ==
    /\ Free(p)
    /\ req' = [req EXCEPT ![p] =
                  Finish([IdleReq EXCEPT !.op = "GetBinding", !.instanceID = instanceID,
                                            !.bindingID = bindingID],
                         "GetBinding",
                         [status |-> "err", err |-> "UnknownBindingID",
                          code |-> StatusNotFound, credentials |-> NoCredentials])]
    /\ UNCHANGED <<clusters, users>>

(***************************************************************************)
(* Provision, Update, Deprovision and LastOperation                        *)
(*                                                                         *)
(* The handlers are in pkg/broker/instance_operations.go, which is not     *)
(* part of the sources at hand: they are written from the design document  *)
(* (Operation Tracker, Orchestration Layer) and from what the integration  *)
(* test observes of them.                                                  *)
(***************************************************************************)

\* The operation kinds a poll names in its OperationData.
Operations == {"provision", "update", "deprovision"}

\* brokerapi.LastOperationState
LastOperationStates == {"in progress", "succeeded", "failed"}

Accepted == [status |-> "ok", err |-> "", code |-> 0, credentials |-> NoCredentials]

\* Provision waiting for the cluster to be idle before it answers.
Provision_Waiting(p, instanceID, details) ==
    /\ Free(p)
    /\ LET r    == [IdleReq EXCEPT !.op = "Provision", !.instanceID = instanceID,
                                   !.details = details]
           name == NormalizeClusterName(instanceID)
           sent == [r EXCEPT !.calls = <<"CreateCluster">>]
       IN  IF details.ServiceID \notin ServiceIDs
           THEN /\ req' = [req EXCEPT ![p] = Finish(r, "Provision_validate", Failure("InvalidServiceID"))]
                /\ UNCHANGED clusters
           ELSE IF details.PlanID \notin PlanIDs
           THEN /\ req' = [req EXCEPT ![p] = Finish(r, "Provision_validate", Failure("InvalidPlanID"))]
                /\ UNCHANGED clusters
           ELSE \/ /\ clusters[name] = "ABSENT"
                   /\ clusters' = [clusters EXCEPT ![name] = "IDLE"]
                   /\ req' = [req EXCEPT ![p] = Finish(sent, "Provision_CreateCluster", Accepted)]
                \/ /\ clusters[name] # "ABSENT"
                   /\ req' = [req EXCEPT ![p] = Finish(sent, "Provision_CreateCluster", Failure("ClusterExists"))]
                   /\ UNCHANGED clusters
    /\ UNCHANGED users

\* Provision: the catalog lookups, then CreateCluster; the accepted answer
\* leaves the cluster to Atlas, which reports it as creating.
Provision(p, instanceID, details) ==
    /\ Free(p)
    /\ LET r    == [IdleReq EXCEPT !.op = "Provision", !.instanceID = instanceID,
                                   !.details = details]
           name == NormalizeClusterName(instanceID)
           sent == [r EXCEPT !.calls = <<"CreateCluster">>]
       IN  IF details.ServiceID \notin ServiceIDs
           THEN /\ req' = [req EXCEPT ![p] = Finish(r, "Provision_validate", Failure("InvalidServiceID"))]
                /\ UNCHANGED clusters
           ELSE IF details.PlanID \notin PlanIDs
           THEN /\ req' = [req EXCEPT ![p] = Finish(r, "Provision_validate", Failure("InvalidPlanID"))]
                /\ UNCHANGED clusters
           ELSE \/ /\ clusters[name] = "ABSENT"
                   /\ clusters' = [clusters EXCEPT ![name] = "CREATING"]
                   /\ req' = [req EXCEPT ![p] = Finish(sent, "Provision_CreateCluster", Accepted)]
                \/ /\ clusters[name] # "ABSENT"
                   /\ req' = [req EXCEPT ![p] = Finish(sent, "Provision_CreateCluster", Failure("ClusterExists"))]
                   /\ UNCHANGED clusters
    /\ UNCHANGED users

\* Update: UpdateCluster, which Atlas accepts on an idle cluster.
Update(p, instanceID) ==
    /\ Free(p)
    /\ LET r    == [IdleReq EXCEPT !.op = "Update", !.instanceID = instanceID,
                                   !.calls = <<"UpdateCluster">>]
           name == NormalizeClusterName(instanceID)
       IN  \/ /\ clusters[name] = "IDLE"
              /\ clusters' = [clusters EXCEPT ![name] = "UPDATING"]
              /\ req' = [req EXCEPT ![p] = Finish(r, "Update_UpdateCluster", Accepted)]
           \/ /\ clusters[name] # "IDLE"
              /\ req' = [req EXCEPT ![p] = Finish(r, "Update_UpdateCluster", Failure("BackendError"))]
              /\ UNCHANGED clusters
    /\ UNCHANGED users

\* Deprovision: DeleteCluster.
Deprovision(p, instanceID) ==
    /\ Free(p)
    /\ LET r    == [IdleReq EXCEPT !.op = "Deprovision", !.instanceID = instanceID,
                                   !.calls = <<"DeleteCluster">>]
           name == NormalizeClusterName(instanceID)
       IN  \/ /\ clusters[name] \in {"CREATING", "IDLE", "UPDATING"}
              /\ clusters' = [clusters EXCEPT ![name] = "DELETING"]
              /\ req' = [req EXCEPT ![p] = Finish(r, "Deprovision_DeleteCluster", Accepted)]
           \/ /\ clusters[name] \notin {"CREATING", "IDLE", "UPDATING"}
              /\ req' = [req EXCEPT ![p] = Finish(r, "Deprovision_DeleteCluster", Failure("BackendError"))]
              /\ UNCHANGED clusters
    /\ UNCHANGED users

\* What GetCluster answers to a poll: the cluster's state, "ABSENT" for the
\* not-found error, "ERROR" for any other error.
GetClusterAnswers(name) == {clusters[name], "ERROR"}

\* A provision or update that counts as done once nothing is being created.
Outcome_UpdatingSteady(operation, answer) ==
    IF operation = "deprovision"
    THEN CASE answer = "ABSENT" -> "succeeded"
           [] answer = "ERROR"  -> "failed"
           [] OTHER             -> "in progress"
    ELSE CASE answer \in {"IDLE", "UPDATING"} -> "succeeded"
           [] answer = "CREATING"             -> "in progress"
           [] OTHER                           -> "failed"

\* A deprovision that counts as done once Atlas reports the cluster deleted.
Outcome_DeletedSucceeded(operation, answer) ==
    IF operation = "deprovision"
    THEN CASE answer \in {"ABSENT", "DELETED"} -> "succeeded"
           [] answer = "ERROR"                 -> "failed"
           [] OTHER                            -> "in progress"
    ELSE CASE answer = "IDLE"                     -> "succeeded"
           [] answer \in {"CREATING", "UPDATING"} -> "in progress"
           [] OTHER                               -> "failed"

\* The outcome of a poll of the operation on the answer of GetCluster.  A
\* provision or update poll that finds the cluster being deleted finds
\* neither the steady state nor a transient state of its operation.
Outcome(operation, answer) ==
    IF operation = "deprovision"
    THEN CASE answer = "ABSENT" -> "succeeded"
           [] answer = "ERROR"  -> "failed"
           [] OTHER             -> "in progress"
    ELSE CASE answer = "IDLE"                     -> "succeeded"
           [] answer \in {"CREATING", "UPDATING"} -> "in progress"
           [] OTHER                               -> "failed"

\* A deprovision poll that deletes again the cluster it finds idle.
LastOperation_Retrying(p, instanceID, operation, answer) ==
    /\ Free(p)
    /\ answer \in GetClusterAnswers(NormalizeClusterName(instanceID))
    /\ req' = [req EXCEPT ![p] =
                  Finish([IdleReq EXCEPT !.op = "LastOperation", !.instanceID = instanceID,
                                            !.operation = operation, !.answer = answer,
                                            !.calls = <<"GetCluster">>,
                                            !.state = Outcome(operation, answer)],
                         "LastOperation", Accepted)]
    /\ clusters' = IF operation = "deprovision" /\ answer = "IDLE"
                   THEN [clusters EXCEPT ![NormalizeClusterName(instanceID)] = "DELETING"]
                   ELSE clusters
    /\ UNCHANGED users

\* LastOperation: GetCluster, and the outcome of the operation named by the
\* poll on its answer; nothing is written anywhere.
LastOperation(p, instanceID, operation, answer) ==
    /\ Free(p)
    /\ answer \in GetClusterAnswers(NormalizeClusterName(instanceID))
    /\ req' = [req EXCEPT ![p] =
                  Finish([IdleReq EXCEPT !.op = "LastOperation", !.instanceID = instanceID,
                                            !.operation = operation, !.answer = answer,
                                            !.calls = <<"GetCluster">>,
                                            !.state = Outcome(operation, answer)],
                         "LastOperation", Accepted)]
    /\ UNCHANGED <<clusters, users>>

\* Atlas carrying on by itself: a created or updated cluster becomes idle, a
\* deleted one is reported deleted and then not found.
Converge(name) ==
    /\ clusters[name] \in {"CREATING", "UPDATING", "DELETING", "DELETED"}
    /\ clusters' = [clusters EXCEPT ![name] =
                       CASE @ \in {"CREATING", "UPDATING"} -> "IDLE"
                         [] @ = "DELETING"                 -> "DELETED"
                         [] @ = "DELETED"                  -> "ABSENT"]
    /\ UNCHANGED <<users, req>>

(***************************************************************************)
(* The requests of the platform                                            *)
(***************************************************************************)

BindingIDs == {<<"b1">>, <<"b2">>}

Raw(o) == [kind |-> "json", v |-> JObject(o)]

ReadRole ==
    JObject([roleName |-> JString(<<"read">>), databaseName |-> JString(<<"db">>),
             collectionName |-> JString(<<"coll">>)])

\* The parameter blobs of the requests: none, bytes that are not JSON, a
\* user with the members the broker overwrites, a nil user, a user and a
\* connectionString of the wrong type, the connection strings of the
\* documentation, a nil connectionString and the empty members.
RawParamsCases ==
    { [kind |-> "empty"],
      [kind |-> "malformed"],
      Raw([user |-> JObject([username |-> JString(<<"evil">>),
                             password |-> JString(<<"pw">>),
                             ldapAuthType |-> JString(<<"NONE">>),
                             roles |-> JArray(<<ReadRole>>)])]),
      Raw([user |-> JNull]),
      Raw([user |-> JObject([roles |-> JString(<<"read">>)])]),
      Raw([connectionString |->
               JObject([format |-> JString(<<"standard">>),
                        database |-> JString(<<"app">>),
                        options |-> JMap((<<"retryWrites">> :> JBool(TRUE)))])]),
      Raw([connectionString |-> JObject([skipCredentials |-> JBool(TRUE)])]),
      Raw([connectionString |-> JObject([skipCredentials |-> JString(<<"true">>)])]),
      Raw([connectionString |-> JNull]),
      Raw([user |-> JObject([roles |-> JArray(<<>>)]),
           connectionString |-> JObject([database |-> JString(<<>>),
                                         options |-> JMap(EmptyValues)])]) }

\* brokerapi.BindDetails and the context: at most one of client, service ID
\* and plan ID is wrong.
BindDetailsCases ==
    { d \in [HasClient : BOOLEAN,
             ServiceID : ServiceIDs \cup {"unknown-service"},
             PlanID : PlanIDs \cup {"unknown-plan"},
             RawParameters : RawParamsCases] :
        Cardinality({x \in {1, 2, 3} :
            \/ x = 1 /\ ~d.HasClient
            \/ x = 2 /\ d.ServiceID \notin ServiceIDs
            \/ x = 3 /\ d.PlanID \notin PlanIDs}) <= 1 }

Step(p) ==
    \/ BindGetCluster(p)
    \/ BindGeneratePassword(p)
    \/ BindUserFromParams(p)
    \/ BindCreateUser(p)
    \/ BindConnectionStringParams(p)
    \/ BindBuildConnectionString(p)
    \/ UnbindGetCluster(p)
    \/ UnbindDeleteUser(p)

Next ==
    \/ \E i \in InstanceIDs : SetupInstance(i)
    \/ \E i \in InstanceIDs : TeardownInstance(i)
    \/ \E b \in BindingIDs : SetupBinding(b)
    \/ \E b \in BindingIDs : TeardownBinding(b)
    \/ \E p \in Procs :
           /\ Free(p)
           /\ \E i \in InstanceIDs, b \in BindingIDs, d \in BindDetailsCases :
                  BindBegin(p, i, b, d)
    \/ \E p \in Procs :
           /\ Free(p)
           /\ \E i \in InstanceIDs, b \in BindingIDs, h \in BOOLEAN :
                  UnbindBegin(p, i, b, h)
    \/ \E p \in Procs :
           /\ Free(p)
           /\ \E i \in InstanceIDs, b \in BindingIDs : GetBinding(p, i, b)
    \/ \E p \in Procs : Step(p)
    \/ \E p \in Procs : Respond(p)

Spec == Init /\ [][Next]_vars

(***************************************************************************)
(* One Bind over the parameter space                                       *)
(*                                                                         *)
(* SpecBind runs a single Bind on provisioned clusters, its binding ID and *)
(* parameters drawn from the sets below.                                   *)
(***************************************************************************)

\* Longest binding ID drawn, in characters.
MaxIdLen == 2

\* Longest list of roles a caller supplies.
MaxRoles == 2

\* Characters of binding IDs: a word and the delimiters of a URL authority.
IdChars == {"b1", ":", "@", "%", "/"}

Strings(chars, n) == UNION {[1..k -> chars] : k \in 1..n}

AllBindingIDs == Strings(IdChars, MaxIdLen)

JAbsent == [t |-> "absent"]

\* The object of the members that are present.
Members(o) == [k \in {x \in DOMAIN o : o[x].t # "absent"} |-> o[k]]

AdminRole ==
    JObject([roleName |-> JString(<<"readWriteAnyDatabase">>),
             databaseName |-> JString(<<"admin">>)])

RoleLists == {<<>>} \cup Strings({ReadRole, AdminRole}, MaxRoles)

UserObjects ==
    { Members([roles |-> r, ldapAuthType |-> JString(<<"NONE">>)]) :
        r \in {JAbsent, JNull} \cup {JArray(a) : a \in RoleLists} }

OptionsCases ==
    { JAbsent,
      JMap(EmptyValues),
      JMap((<<"retryWrites">> :> JBool(TRUE))),
      JMap((<<"ssl">> :> JString(<<"false">>)) @@ (<<"w">> :> JNumber(79, 10))
              @@ (<<"app">> :> JNull)),
      JMap((<<"w">> :> JNumber(-79, 10)) @@ (<<"retryWrites">> :> JBool(FALSE))
              @@ (<<"ssl">> :> JArray(<<JBool(TRUE)>>))
              @@ (<<"authSource">> :> JMap(EmptyValues))),
      JMap((<<"app">> :> JString(<<"db", " ", "&", "=">>)) @@ (<<"w">> :> JNumber(-1, 2))
              @@ (<<"w", " ", "b1">> :> JNumber(3, 1))) }

ConnectionStringObjects ==
    { Members([skipCredentials |-> k, database |-> d, options |-> o, format |-> f]) :
        k \in {JAbsent, JBool(TRUE), JBool(FALSE)},
        d \in {JAbsent, JString(<<>>), JString(<<"app">>)},
        o \in OptionsCases,
        f \in {JAbsent, JString(<<"standard">>), JString(<<"srv">>)} }

AllRawParams ==
    {[kind |-> "empty"]}
        \cup {Raw([user |-> JObject(u)]) : u \in UserObjects}
        \cup {Raw([connectionString |-> JObject(c)]) : c \in ConnectionStringObjects}

ValidDetails(raw) ==
    [HasClient |-> TRUE, ServiceID |-> "aosb-cluster-service-aws",
     PlanID |-> "aosb-cluster-plan-aws-m10", RawParameters |-> raw]

InitBind ==
    /\ clusters = [n \in ClusterNames |-> "IDLE"]
    /\ users = EmptyValues
    /\ req = [p \in Procs |-> IdleReq]

NextBind ==
    \/ \E p \in Procs :
           /\ Free(p)
           /\ \E i \in InstanceIDs, b \in AllBindingIDs, raw \in AllRawParams :
                  BindBegin(p, i, b, ValidDetails(raw))
    \/ \E p \in Procs : BindGetCluster(p)
    \/ \E p \in Procs : BindGeneratePassword(p)
    \/ \E p \in Procs : BindUserFromParams(p)
    \/ \E p \in Procs : BindCreateUser(p)
    \/ \E p \in Procs : BindConnectionStringParams(p)
    \/ \E p \in Procs : BindBuildConnectionString(p)

SpecBind == InitBind /\ [][NextBind]_vars

(***************************************************************************)
(* The provisioning verbs and their polls                                  *)
(*                                                                         *)
(* SpecOps runs Provision, Update, Deprovision and the polls of the        *)
(* platform on two request slots, against an Atlas that carries on by      *)
(* itself and may fail any query.  SpecProvision is the lifecycle of       *)
(* provisioning alone, on an Atlas that answers every query and with a     *)
(* platform that keeps polling.                                            *)
(***************************************************************************)

\* The request slots of the platform's concurrent requests.
Slots == {"r1", "r2"}

OpsInstanceIDs == {"i1", "i2"}

ProvisionDetailsCases ==
    { [HasClient |-> TRUE, ServiceID |-> sid, PlanID |-> pid,
       RawParameters |-> [kind |-> "empty"]] :
        sid \in ServiceIDs \cup {"unknown-service"}, pid \in PlanIDs \cup {"unknown-plan"} }

InitOps ==
    /\ clusters = [n \in ClusterNames |-> "ABSENT"]
    /\ users = EmptyValues
    /\ req = [p \in Slots |-> IdleReq]

NextOps ==
    \/ \E p \in Slots :
           /\ Free(p)
           /\ \E i \in OpsInstanceIDs, d \in ProvisionDetailsCases : Provision(p, i, d)
    \/ \E p \in Slots : Free(p) /\ \E i \in OpsInstanceIDs : Update(p, i)
    \/ \E p \in Slots : Free(p) /\ \E i \in OpsInstanceIDs : Deprovision(p, i)
    \/ \E p \in Slots :
           /\ Free(p)
           /\ \E i \in OpsInstanceIDs, o \in Operations :
                  \E a \in GetClusterAnswers(NormalizeClusterName(i)) :
                      LastOperation(p, i, o, a)
    \/ \E n \in ClusterNames : Converge(n)
    \/ \E p \in Slots : Respond(p)

SpecOps == InitOps /\ [][NextOps]_vars

\* waitForLastOperation: one poll of the provision of the instance.
PollProvision(i) ==
    \E p \in Slots : LastOperation(p, i, "provision", clusters[NormalizeClusterName(i)])

NextProvision ==
    \/ \E p \in Slots :
           /\ Free(p)
           /\ \E i \in OpsInstanceIDs, d \in ProvisionDetailsCases : Provision(p, i, d)
    \/ \E i \in OpsInstanceIDs : PollProvision(i)
    \/ \E n \in ClusterNames : Converge(n)
    \/ \E p \in Slots : Respond(p)

\* Atlas finishes what it has begun, the platform takes every answer and
\* polls each instance again and again.
SpecProvision ==
    /\ InitOps /\ [][NextProvision]_vars
    /\ \A n \in ClusterNames : WF_vars(Converge(n))
    /\ \A p \in Slots : WF_vars(Respond(p))
    /\ \A i \in OpsInstanceIDs : SF_vars(PollProvision(i))

(***************************************************************************)
(* Bindings of several instances                                           *)
(*                                                                         *)
(* SpecBindings runs Bind and Unbind on two request slots against          *)
(* provisioned clusters; an answer stays in its slot until the platform    *)
(* takes it.                                                               *)
(***************************************************************************)

InitBindings ==
    /\ clusters = [n \in ClusterNames |-> "IDLE"]
    /\ users = EmptyValues
    /\ req = [p \in Slots |-> IdleReq]

NextBindings ==
    \/ \E p \in Slots :
           /\ Free(p)
           /\ \E i \in OpsInstanceIDs, b \in BindingIDs :
                  BindBegin(p, i, b, ValidDetails([kind |-> "empty"]))
    \/ \E p \in Slots :
           /\ Free(p)
           /\ \E i \in OpsInstanceIDs, b \in BindingIDs : UnbindBegin(p, i, b, TRUE)
    \/ \E p \in Slots : Step(p)
    \/ \E p \in Slots : Respond(p)

SpecBindings == InitBindings /\ [][NextBindings]_vars

(***************************************************************************)
(* Two requests at once                                                    *)
(*                                                                         *)
(* SpecConcurrent serves one request in each of two slots, their steps     *)
(* interleaved in every order: Binds with distinct binding IDs, on the     *)
(* same instance or on two, and Deprovisions, on provisioned clusters that *)
(* Atlas removes once their deletion is accepted.                          *)
(***************************************************************************)

ConcurrentRawParams ==
    { [kind |-> "empty"],
      Raw([connectionString |-> JObject([skipCredentials |-> JBool(TRUE)])]),
      Raw([connectionString |-> JObject([skipCredentials |-> JString(<<"true">>)])]) }

InitConcurrent ==
    /\ clusters = [n \in ClusterNames |-> "IDLE"]
    /\ users = EmptyValues
    /\ req = [p \in Slots |-> IdleReq]

NextConcurrent ==
    \/ \E p \in Slots :
           /\ Free(p)
           /\ \E i \in OpsInstanceIDs, b \in BindingIDs, raw \in ConcurrentRawParams :
                  /\ \A q \in Slots \ {p} : req[q].bindingID # b
                  /\ BindBegin(p, i, b, ValidDetails(raw))
    \/ \E p \in Slots, i \in OpsInstanceIDs : Deprovision(p, i)
    \/ \E p \in Slots : BindGetCluster(p)
    \/ \E p \in Slots : BindGeneratePassword(p)
    \/ \E p \in Slots : BindUserFromParams(p)
    \/ \E p \in Slots : BindCreateUser(p)
    \/ \E p \in Slots : BindConnectionStringParams(p)
    \/ \E p \in Slots : BindBuildConnectionString(p)
    \/ \E n \in ClusterNames : Converge(n)

SpecConcurrent == InitConcurrent /\ [][NextConcurrent]_vars

(***************************************************************************)
(* Properties                                                              *)
(***************************************************************************)

\* The request has issued the backend call.
Issued(r, call) == \E k \in 1..Len(r.calls) : r.calls[k] = call

\* C1: every Bind that has issued CreateUser passed it a user whose username
\* is the binding ID and whose password is the secret generated in this
\* call, whatever the caller's parameters say; and the credentials of every
\* successful Bind carry that binding ID and that same secret.
C1_BindIdentity ==
    \A p \in Procs :
        LET r == req[p]
        IN  r.op = "Bind" =>
              /\ Issued(r, "CreateUser") =>
                    /\ r.password \in Secrets
                    /\ r.sent.Username = r.bindingID
                    /\ r.sent.Password = r.password
              /\ (r.pc = "done" /\ r.result.status = "ok") =>
                    /\ Issued(r, "CreateUser")
                    /\ r.result.credentials.set
                    /\ r.result.credentials.Username = r.bindingID
                    /\ r.result.credentials.Password = r.password

\* A Bind whose parameters supply user.username and user.password succeeded.
C1_Witness ==
    \E p \in Procs :
        LET r   == req[p]
            raw == r.details.RawParameters
        IN  /\ r.op = "Bind" /\ r.pc = "done" /\ r.result.status = "ok"
            /\ raw.kind = "json"
            /\ "user" \in DOMAIN raw.v.o
            /\ raw.v.o.user.t = "object"
            /\ {"username", "password"} \subseteq DOMAIN raw.v.o.user.o
            /\ r.bindingID \in DOMAIN users

\* C2: a step in which Unbind deletes and returns without error removes the
\* user named by the binding ID, and removes or changes no other user.
C2_UnbindDeletesBinding ==
    [][\A p \in Procs :
          ( /\ req[p].pc = "Unbind_DeleteUser"
            /\ req'[p].pc = "done"
            /\ req'[p].result.status = "ok" )
          => /\ req[p].calls = <<"GetCluster">>
             /\ req[p].bindingID \in DOMAIN users
             /\ req[p].bindingID \notin DOMAIN users'
             /\ DOMAIN users' = DOMAIN users \ {req[p].bindingID}
             /\ \A n \in DOMAIN users' : users'[n] = users[n]]_vars

\* An Unbind has returned without error, its user is gone and another
\* user is still there.
C2_Witness ==
    \E p \in Procs :
        /\ req[p].op = "Unbind" /\ req[p].pc = "done" /\ req[p].result.status = "ok"
        /\ req[p].bindingID \notin DOMAIN users
        /\ users # EmptyValues

\* C3: GetBinding returns a 404 failure response, returns no credentials and
\* issues no backend call, for every instance ID and binding ID and in
\* every state of the backend.
C3_GetBindingFails ==
    \A p \in Procs :
        req[p].op = "GetBinding" =>
            /\ req[p].pc = "done"
            /\ req[p].result.status = "err"
            /\ req[p].result.code = StatusNotFound
            /\ ~req[p].result.credentials.set
            /\ req[p].calls = <<>>

\* GetBinding has answered for a binding whose user a Bind created and
\* that is still in the backend.
C3_Witness ==
    \E p \in Procs :
        /\ req[p].op = "GetBinding" /\ req[p].pc = "done"
        /\ req[p].bindingID \in DOMAIN users
        /\ users[req[p].bindingID].Password \in Secrets

\* C4 as claimed: whenever merging the connection-string parameters or
\* building the connection string fails, CreateUser has not been issued.
C4_CreateUserLast ==
    \A p \in Procs :
        ( /\ req[p].op = "Bind" /\ req[p].pc = "done"
          /\ req[p].at \in {"Bind_connectionStringParams", "Bind_buildConnectionString"}
          /\ req[p].result.status # "ok" )
        => ~Issued(req[p], "CreateUser")

\* C4 amended: Bind validates, fetches the cluster, generates the secret,
\* builds the user definition and issues CreateUser before it merges the
\* connection-string parameters and builds the connection string.  A Bind
\* that fails in the user definition has issued no CreateUser; a Bind that
\* merges or builds the connection string, or fails there, has issued
\* GetCluster and then CreateUser, once each.
C4_CreateUserBeforeConnectionString ==
    \A p \in Procs :
        LET r == req[p]
        IN  r.op = "Bind" =>
              /\ (r.pc = "done" /\ r.at = "Bind_userFromParams")
                    => r.calls = <<"GetCluster">>
              /\ r.pc \in {"Bind_generatePassword", "Bind_userFromParams", "Bind_CreateUser"}
                    => r.calls = <<"GetCluster">>
              /\ r.pc \in {"Bind_connectionStringParams", "Bind_buildConnectionString"}
                    => r.calls = <<"GetCluster", "CreateUser">>
              /\ ( /\ r.pc = "done"
                   /\ r.at \in {"Bind_connectionStringParams", "Bind_buildConnectionString"} )
                    => r.calls = <<"GetCluster", "CreateUser">>

\* A Bind has failed merging the connection-string parameters after its
\* user was created, and the user is in the backend.
C4_Witness ==
    \E p \in Procs :
        /\ req[p].op = "Bind" /\ req[p].pc = "done"
        /\ req[p].at = "Bind_connectionStringParams"
        /\ req[p].result.status = "err"
        /\ Issued(req[p], "CreateUser")
        /\ req[p].bindingID \in DOMAIN users
        /\ users[req[p].bindingID].Password = req[p].password

\* C5: a Bind with a service ID or plan ID outside the catalog, a Bind whose
\* GetCluster fails and a Bind whose secret generation fails return an
\* error and no credentials and have issued no CreateUser (nor any other
\* call that changes the backend's users); after a failed secret generation
\* the request holds no secret at all.
C5_EarlyFailures ==
    \A p \in Procs :
        LET r == req[p]
        IN  r.op = "Bind" =>
              /\ (r.details.ServiceID \notin ServiceIDs \/ r.details.PlanID \notin PlanIDs)
                    => /\ r.pc = "done" /\ r.at = "Bind_validate"
                       /\ r.calls = <<>>
              /\ (Issued(r, "GetCluster") /\ r.cluster = NoCluster)
                    => r.pc = "done" /\ r.at = "Bind_GetCluster"
              /\ (r.pc = "done" /\ r.at = "Bind_generatePassword")
                    => r.password = <<>>
              /\ ( /\ r.pc = "done"
                   /\ r.at \in {"Bind_validate", "Bind_GetCluster", "Bind_generatePassword"} )
                    => /\ r.result.status = "err"
                       /\ ~r.result.credentials.set
                       /\ ~Issued(r, "CreateUser") /\ ~Issued(r, "DeleteUser")
                       /\ r.sent = NilUser

\* A Bind has failed generating its secret on an existing cluster.
C5_Witness ==
    \E p \in Procs :
        /\ req[p].op = "Bind" /\ req[p].pc = "done"
        /\ req[p].at = "Bind_generatePassword"
        /\ req[p].result.err = "PasswordGeneration"
        /\ req[p].cluster # NoCluster

\* C6: a Bind whose parameter blob is not JSON never reaches CreateUser and
\* returns an error; a Bind without parameter blob never fails in the
\* parameters, builds a user with the default role alone and connection
\* string parameters with credentials embedded, no path, no options and
\* the abbreviated address.
C6_MalformedAndEmptyParameters ==
    \A p \in Procs :
        LET r == req[p]
        IN  r.op = "Bind" =>
              /\ r.details.RawParameters.kind = "malformed" =>
                    /\ ~Issued(r, "CreateUser")
                    /\ r.pc \notin {"Bind_CreateUser", "Bind_connectionStringParams",
                                    "Bind_buildConnectionString"}
                    /\ r.pc = "done" => r.result.status = "err"
              /\ r.details.RawParameters.kind = "empty" =>
                    /\ r.pc = "done" =>
                          /\ r.result.status # "panic"
                          /\ r.result.err # "MalformedParameters"
                          /\ r.at \notin {"Bind_userFromParams", "Bind_connectionStringParams"}
                    /\ Issued(r, "CreateUser") =>
                          /\ r.sent.Roles = <<DefaultRole>>
                          /\ r.sent.LDAPAuthType = <<>>
                    /\ (r.pc = "Bind_buildConnectionString" \/ r.at = "Bind_buildConnectionString") =>
                          /\ ~r.params.nil
                          /\ ~r.params.SkipCredentials
                          /\ r.params.Database = <<>>
                          /\ OptionsLen(r.params.Options) = 0
                          /\ r.params.Format # <<"standard">>
                    /\ (r.pc = "done" /\ r.result.status = "ok") =>
                          LET u == Parse(r.result.credentials.ConnectionString).url
                              a == Parse(r.cluster.SrvAddress).url
                          IN  /\ u.User = UserPassword(r.bindingID, r.password)
                              /\ u.Scheme = a.Scheme /\ u.Host = a.Host
                              /\ u.Path = a.Path /\ u.RawQuery = a.RawQuery

\* A Bind whose parameter blob is not JSON has returned its error, on an
\* existing cluster and with a secret generated.
C6_Witness ==
    \E p \in Procs :
        /\ req[p].op = "Bind" /\ req[p].pc = "done"
        /\ req[p].details.RawParameters.kind = "malformed"
        /\ req[p].at = "Bind_userFromParams"
        /\ req[p].result.err = "MalformedParameters"
        /\ req[p].password \in Secrets

\* The connectionString object of a parameter blob, or the empty object.
ConnectionStringOf(raw) ==
    IF /\ raw.kind = "json"
       /\ "connectionString" \in DOMAIN raw.v.o
       /\ raw.v.o.connectionString.t = "object"
    THEN raw.v.o.connectionString.o
    ELSE [k \in {} |-> JNull]

\* The roles the caller supplies, as the backend's roles.
RolesOf(raw) ==
    LET a == IF /\ raw.kind = "json"
                /\ "user" \in DOMAIN raw.v.o
                /\ raw.v.o.user.t = "object"
                /\ "roles" \in DOMAIN raw.v.o.user.o
                /\ raw.v.o.user.o.roles.t = "array"
             THEN raw.v.o.user.o.roles.a ELSE <<>>
        member(j, name) == IF name \in DOMAIN j.o THEN j.o[name].s ELSE <<>>
    IN  [i \in 1..Len(a) |-> [Name |-> member(a[i], "roleName"),
                              DatabaseName |-> member(a[i], "databaseName"),
                              CollectionName |-> member(a[i], "collectionName")]]

\* sub occurs in s
Occurs(sub, s) ==
    \E i \in 1..(Len(s) - Len(sub) + 1) : SubSeq(s, i, i + Len(sub) - 1) = sub

C8_AddressSelection ==
    \A p \in Procs :
        LET r        == req[p]
            c        == ConnectionStringOf(r.details.RawParameters)
            standard == /\ "format" \in DOMAIN c
                        /\ c.format = JString(<<"standard">>)
            cluster  == ClusterRecord(NormalizeClusterName(r.instanceID))
            verbose  == Parse(cluster.MongoURIWithOptions)
            srv      == Parse(cluster.SrvAddress)
        IN  (r.op = "Bind" /\ r.pc = "done" /\ r.at = "Bind_buildConnectionString") =>
              /\ r.result.status = "err"
                    => IF standard THEN verbose.err ELSE srv.err
              /\ r.result.status = "ok" =>
                    LET u == Parse(r.result.credentials.ConnectionString).url
                    IN  /\ standard => u.Scheme = verbose.url.Scheme /\ u.Host = verbose.url.Host
                        /\ ~standard => u.Scheme = srv.url.Scheme /\ u.Host = srv.url.Host
                        /\ standard <=> (~verbose.err /\ u.Host = verbose.url.Host)
                        /\ r.result.credentials.URI = cluster.SrvAddress

\* A Bind succeeded with the format "standard", credentials skipped and
\* options given.
C8_Witness ==
    \E p \in Procs :
        LET c == ConnectionStringOf(req[p].details.RawParameters)
        IN  /\ req[p].op = "Bind" /\ req[p].pc = "done" /\ req[p].result.status = "ok"
            /\ {"format", "skipCredentials", "options", "database"} \subseteq DOMAIN c
            /\ c.format = JString(<<"standard">>)
            /\ c.skipCredentials = JBool(TRUE)
            /\ c.options # JMap(EmptyValues)
            /\ req[p].result.credentials.URI # req[p].result.credentials.ConnectionString

\* C9: without skipCredentials the connection string of a successful Bind
\* parses, and its user-info is the binding ID and the generated secret;
\* with skipCredentials it has no user-info and the secret occurs nowhere in
\* it, while the credentials still carry the secret as password.
C9_CredentialEmbedding ==
    \A p \in Procs :
        LET r    == req[p]
            c    == ConnectionStringOf(r.details.RawParameters)
            skip == "skipCredentials" \in DOMAIN c /\ c.skipCredentials = JBool(TRUE)
            u    == Parse(r.result.credentials.ConnectionString)
        IN  (r.op = "Bind" /\ r.pc = "done" /\ r.result.status = "ok") =>
              /\ ~u.err
              /\ r.password \in Secrets
              /\ r.result.credentials.Password = r.password
              /\ ~skip => u.url.User = UserPassword(r.bindingID, r.password)
              /\ skip => /\ u.url.User = NoUserinfo
                         /\ ~Occurs(r.password, r.result.credentials.ConnectionString)

\* A Bind succeeded embedding a binding ID made of ":" and "@".
C9_Witness ==
    \E p \in Procs :
        /\ req[p].op = "Bind" /\ req[p].pc = "done" /\ req[p].result.status = "ok"
        /\ req[p].bindingID = <<":", "@">>
        /\ Parse(req[p].result.credentials.ConnectionString).url.User.username = <<":", "@">>
        /\ Occurs(req[p].password, req[p].result.credentials.ConnectionString)

\* C10: a Bind whose options are the empty object and whose database is the
\* empty string (or either left out) builds exactly the connection string
\* that the same parameters without options and database build: the query
\* and the path are those of the cluster's address.
C10_IdempotentDefaulting ==
    \A p \in Procs :
        LET r       == req[p]
            c       == ConnectionStringOf(r.details.RawParameters)
            empty   == /\ "options" \in DOMAIN c => c.options = JMap(EmptyValues)
                       /\ "database" \in DOMAIN c => c.database = JString(<<>>)
            omitted == Raw([connectionString |->
                               JObject([k \in DOMAIN c \ {"options", "database"} |-> c[k]])])
            cluster == ClusterRecord(NormalizeClusterName(r.instanceID))
            other   == buildConnectionString(connectionStringParamsFromParams(omitted).params,
                                             cluster, r.bindingID, r.password)
            address == Parse(IF "format" \in DOMAIN c /\ c.format = JString(<<"standard">>)
                             THEN cluster.MongoURIWithOptions ELSE cluster.SrvAddress).url
        IN  (r.op = "Bind" /\ r.pc = "done" /\ r.at = "Bind_buildConnectionString" /\ empty) =>
              /\ r.result.status = "ok" <=> other.status = "ok"
              /\ r.result.status = "ok" =>
                    /\ r.result.credentials.ConnectionString = other.s
                    /\ Parse(other.s).url.RawQuery = address.RawQuery
                    /\ Parse(other.s).url.Path = address.Path

\* A Bind succeeded on the verbose address, which has a query, with the
\* empty options object and the empty database string.
C10_Witness ==
    \E p \in Procs :
        LET c == ConnectionStringOf(req[p].details.RawParameters)
        IN  /\ req[p].op = "Bind" /\ req[p].pc = "done" /\ req[p].result.status = "ok"
            /\ {"options", "database", "format"} \subseteq DOMAIN c
            /\ c.options = JMap(EmptyValues)
            /\ c.database = JString(<<>>)
            /\ c.format = JString(<<"standard">>)
            /\ Parse(req[p].result.credentials.ConnectionString).url.RawQuery # <<>>

\* The options object of a connectionString object, or the empty map.
OptionsOf(c) ==
    IF "options" \in DOMAIN c /\ c.options.t = "object" THEN c.options.m ELSE EmptyValues

\* The database of a connectionString object, or the empty string.
DatabaseOf(c) ==
    IF "database" \in DOMAIN c /\ c.database.t = "string" THEN c.database.s ELSE <<>>

\* The address the format of a connectionString object selects, parsed.
AddressOf(c, instanceID) ==
    LET cluster == ClusterRecord(NormalizeClusterName(instanceID))
    IN  Parse(IF "format" \in DOMAIN c /\ c.format = JString(<<"standard">>)
              THEN cluster.MongoURIWithOptions ELSE cluster.SrvAddress).url

Abs(n) == IF n < 0 THEN -n ELSE n

\* The integer left of num/den when the fraction is cut off.
Truncated(num, den) ==
    CHOOSE n \in -Abs(num)..Abs(num) :
        /\ Abs(n) * den <= Abs(num)
        /\ Abs(num) < (Abs(n) + 1) * den
        /\ n # 0 => (n > 0 <=> num > 0)

\* The option values that reach the query, and what they read there.
Supported(v) == v.t \in {"string", "number", "bool"}

Rendered(v) ==
    CASE v.t = "string" -> v.s
      [] v.t = "number" -> FormatInt(Truncated(v.num, v.den))
      [] v.t = "bool"   -> IF v.b THEN <<"true">> ELSE <<"false">>

C12_QueryMergingAndPath ==
    \A p \in Procs :
        LET r    == req[p]
            c    == ConnectionStringOf(r.details.RawParameters)
            m    == OptionsOf(c)
            db   == DatabaseOf(c)
            set  == {k \in DOMAIN m : Supported(m[k])}
            base == Query(AddressOf(c, r.instanceID))
            u    == Parse(r.result.credentials.ConnectionString).url
            q    == Query(u)
        IN  (r.op = "Bind" /\ r.pc = "done" /\ r.result.status = "ok") =>
              /\ DOMAIN m # {} =>
                    /\ DOMAIN q = DOMAIN base \cup set
                    /\ \A k \in set : q[k] = <<Rendered(m[k])>>
                    /\ \A k \in DOMAIN base \ set : q[k] = base[k]
              /\ db # <<>> => u.Path = <<"/">> \o db
              /\ (DOMAIN m # {} /\ db = <<>>) => u.Path = <<"/">>
              /\ ( /\ r.instanceID = "i3" /\ r.bindingID = <<"b1">>
                   /\ c = [format |-> JString(<<"standard">>),
                           database |-> JString(<<"app">>),
                           options |-> JMap((<<"retryWrites">> :> JBool(TRUE)))] )
                    => r.result.credentials.ConnectionString =
                          <<"mongodb", ":", "/", "/", "b1", ":">> \o r.password
                             \o <<"@", "host1", ",", "host2", "/", "app", "?",
                                  "retryWrites", "=", "true", "&", "ssl", "=", "true">>

\* The Bind of the example succeeded.
C12_Witness ==
    \E p \in Procs :
        /\ req[p].op = "Bind" /\ req[p].pc = "done" /\ req[p].result.status = "ok"
        /\ req[p].instanceID = "i3" /\ req[p].bindingID = <<"b1">>
        /\ ConnectionStringOf(req[p].details.RawParameters) =
              [format |-> JString(<<"standard">>), database |-> JString(<<"app">>),
               options |-> JMap((<<"retryWrites">> :> JBool(TRUE)))]
        /\ req[p].result.credentials.ConnectionString =
              <<"mongodb", ":", "/", "/", "b1", ":", "secretA", "=", "@", "host1", ",",
                "host2", "/", "app", "?", "retryWrites", "=", "true", "&", "ssl", "=", "true">>

\* The slot takes a poll in this step.
Polls(p) == req[p].pc = "idle" /\ req'[p].op = "LastOperation"

\* The slot holds the answer to a poll of the operation on the instance.
Polled(p, instanceID, operation) ==
    /\ req[p].op = "LastOperation" /\ req[p].pc = "done"
    /\ req[p].instanceID = instanceID /\ req[p].operation = operation

\* C13: a poll of a provision or an update reads the cluster once and
\* reports succeeded exactly when Atlas answers idle, in progress when it
\* answers creating or updating, failed when it finds no cluster or the
\* query fails; it never reports succeeded while the cluster is creating or
\* updating.
C13_ProvisionUpdatePolls ==
    [][\A p \in Slots :
          (Polls(p) /\ req'[p].operation \in {"provision", "update"}) =>
             LET c  == clusters[NormalizeClusterName(req'[p].instanceID)]
                 a  == req'[p].answer
                 st == req'[p].state
             IN  /\ st \in LastOperationStates
                 /\ a \in {c, "ERROR"}
                 /\ st = "succeeded" <=> a = "IDLE"
                 /\ a \in {"CREATING", "UPDATING"} => st = "in progress"
                 /\ a \in {"ABSENT", "ERROR"} => st = "failed"
                 /\ c \in {"CREATING", "UPDATING"} => st # "succeeded"]_vars

\* A provision poll answered in progress on a creating cluster and an
\* update poll answered in progress on an updating one.
C13_Witness ==
    \E p, q \in Slots :
        /\ Polled(p, "i1", "provision") /\ req[p].answer = "CREATING"
        /\ req[p].state = "in progress"
        /\ Polled(q, "i2", "update") /\ req[q].answer = "UPDATING"
        /\ req[q].state = "in progress"

\* C14: a poll of a deprovision reports succeeded exactly when GetCluster
\* answers not found, in progress for every state the cluster is found in,
\* failed when the query fails otherwise; the cluster a poll reported
\* succeeded for is not found, and a cluster that is not found is found
\* again only when a Provision creates it.
C14_DeprovisionPolls ==
    [][/\ \A p \in Slots :
             (Polls(p) /\ req'[p].operation = "deprovision") =>
                LET n  == NormalizeClusterName(req'[p].instanceID)
                    a  == req'[p].answer
                    st == req'[p].state
                IN  /\ a \in {clusters[n], "ERROR"}
                    /\ st = "succeeded" <=> a = "ABSENT"
                    /\ a \in {"CREATING", "IDLE", "UPDATING", "DELETING", "DELETED"}
                          => st = "in progress"
                    /\ a = "ERROR" => st = "failed"
                    /\ st = "succeeded" => clusters'[n] = "ABSENT"
       /\ \A n \in ClusterNames :
             (clusters[n] = "ABSENT" /\ clusters'[n] # "ABSENT") =>
                \E p \in Slots :
                    /\ req[p].pc = "idle" /\ req'[p].op = "Provision"
                    /\ NormalizeClusterName(req'[p].instanceID) = n
                    /\ req'[p].result.status = "ok"]_vars

\* A Deprovision was accepted, and a poll of it reported succeeded on the
\* cluster that is not found any more, after a poll that reported in
\* progress on the deleted cluster.
C14_Witness ==
    \E p, q \in Slots :
        /\ Polled(p, "i1", "deprovision") /\ req[p].state = "succeeded"
        /\ Polled(q, "i1", "deprovision") /\ req[q].state = "in progress"
        /\ req[q].answer = "DELETED"
        /\ clusters[NormalizeClusterName("i1")] = "ABSENT"

\* C15: a poll changes no cluster, no user and no other request, and two
\* polls of the same operation on the same instance that get the same answer
\* from Atlas report the same outcome, a terminal outcome included.
C15_PollsArePure ==
    /\ [][\A p \in Slots :
             Polls(p) => /\ clusters' = clusters
                         /\ users' = users
                         /\ \A q \in Slots \ {p} : req'[q] = req[q]]_vars
    /\ [](\A p, q \in Slots :
             ( /\ Polled(p, req[p].instanceID, req[p].operation)
               /\ Polled(q, req[p].instanceID, req[p].operation)
               /\ req[p].answer = req[q].answer )
             => req[p].state = req[q].state)

\* Two polls of the same deprovision have both reported succeeded.
C15_Witness ==
    \E p, q \in Slots :
        /\ p # q
        /\ Polled(p, "i1", "deprovision") /\ req[p].state = "succeeded"
        /\ Polled(q, "i1", "deprovision") /\ req[q].state = "succeeded"

\* C16: Provision answers accepted in the step that creates the cluster,
\* which Atlas then reports as creating, not idle; a provision poll on the
\* creating cluster reports in progress and reports succeeded only on the
\* idle one; and once the cluster is creating, a provision poll eventually
\* reports succeeded.
C16_AsyncProvision ==
    /\ [][\A p \in Slots :
             ( /\ req[p].pc = "idle" /\ req'[p].op = "Provision"
               /\ req'[p].result.status = "ok" )
             => /\ clusters[NormalizeClusterName(req'[p].instanceID)] = "ABSENT"
                /\ clusters'[NormalizeClusterName(req'[p].instanceID)] = "CREATING"
                /\ req'[p].calls = <<"CreateCluster">>]_vars
    /\ [][\A p \in Slots :
             (Polls(p) /\ req'[p].operation = "provision") =>
                LET c == clusters[NormalizeClusterName(req'[p].instanceID)]
                IN  /\ c = "CREATING" => req'[p].state = "in progress"
                    /\ req'[p].state = "succeeded" => c = "IDLE"]_vars
    /\ \A i \in OpsInstanceIDs :
          (clusters[NormalizeClusterName(i)] = "CREATING")
             ~> (\E p \in Slots : Polled(p, i, "provision") /\ req[p].state = "succeeded")

\* A provision poll has reported in progress and a later one succeeded.
C16_Witness ==
    \E p, q \in Slots :
        /\ Polled(p, "i1", "provision") /\ req[p].state = "in progress"
        /\ Polled(q, "i1", "provision") /\ req[q].state = "succeeded"
        /\ clusters[NormalizeClusterName("i1")] = "IDLE"

\* How often the request has issued the backend call.
Count(r, call) == Cardinality({k \in 1..Len(r.calls) : r.calls[k] = call})

\* C17: a step in which Bind fails after its CreateUser succeeded returns an
\* error and no credentials, issues no DeleteUser and leaves the users of
\* the backend as they are.
C17_NoCompensation ==
    [][\A p \in Procs :
          ( /\ req[p].op = "Bind"
            /\ req[p].pc \in {"Bind_connectionStringParams", "Bind_buildConnectionString"}
            /\ req'[p].pc = "done"
            /\ req'[p].result.status # "ok" )
          => /\ req'[p].result.status = "err"
             /\ ~req'[p].result.credentials.set
             /\ ~Issued(req'[p], "DeleteUser")
             /\ users' = users]_vars

\* C18: an Unbind whose GetCluster fails returns an error in that step,
\* has issued no DeleteUser and leaves the users as they are; an Unbind
\* whose DeleteUser fails, as it does for a user that does not exist,
\* returns an error and leaves clusters and users as they are.
C18_UnbindChecksInstance ==
    [][\A p \in Procs :
          /\ (req[p].pc = "Unbind_GetCluster" /\ req'[p] # req[p]) =>
                /\ req'[p].pc \in {"done", "Unbind_DeleteUser"}
                /\ users' = users /\ clusters' = clusters
                /\ ~Issued(req'[p], "DeleteUser")
                /\ clusters[NormalizeClusterName(req[p].instanceID)] = "ABSENT"
                      => req'[p].pc = "done"
                /\ req'[p].pc = "done" =>
                      /\ req'[p].at = "Unbind_GetCluster"
                      /\ req'[p].result.status = "err"
          /\ (req[p].pc = "Unbind_DeleteUser" /\ req'[p] # req[p]) =>
                /\ req'[p].pc = "done" /\ clusters' = clusters
                /\ req[p].bindingID \notin DOMAIN users => req'[p].result.status = "err"
                /\ req'[p].result.status # "ok" =>
                      /\ req'[p].result.status = "err"
                      /\ users' = users]_vars

\* An Unbind was refused for a cluster that is not there, and the user of
\* its binding ID is still in the backend.
C18_Witness ==
    \E p \in Procs :
        /\ req[p].op = "Unbind" /\ req[p].pc = "done"
        /\ req[p].at = "Unbind_GetCluster"
        /\ req[p].result.err = "ClusterNotFound"
        /\ req[p].calls = <<"GetCluster">>
        /\ req[p].bindingID \in DOMAIN users

\* C19: while the platform holds the answer of a successful Bind of a
\* binding on one instance and the user that Bind created is in the backend,
\* a DeleteUser step of an Unbind of the same binding on another instance
\* leaves that user in the backend.
C19_BindingScopedToInstance ==
    [][\A p, q \in Slots :
          ( /\ req[p].op = "Bind" /\ req[p].pc = "done" /\ req[p].result.status = "ok"
            /\ req[q].op = "Unbind" /\ req[q].pc = "Unbind_DeleteUser"
            /\ req[q].bindingID = req[p].bindingID
            /\ req[q].instanceID # req[p].instanceID
            /\ req[p].bindingID \in DOMAIN users
            /\ users[req[p].bindingID].Password = req[p].password )
          => req[p].bindingID \in DOMAIN users']_vars

\* C20: a Bind has issued GetCluster and CreateUser at most once each and
\* an Unbind GetCluster and DeleteUser at most once each; a request that a
\* backend call failed has returned an error with that call as its last.
C20_NoInternalRetry ==
    \A p \in Procs :
        LET r == req[p]
        IN  /\ r.op \in {"Bind", "Unbind"} =>
                 /\ Count(r, "GetCluster") <= 1
                 /\ Count(r, "CreateUser") <= 1
                 /\ Count(r, "DeleteUser") <= 1
                 /\ Len(r.calls) <= 2
            /\ (r.pc = "done" /\ r.at \in {"Bind_GetCluster", "Unbind_GetCluster"}) =>
                 r.result.status = "err" /\ r.calls = <<"GetCluster">>
            /\ (r.pc = "done" /\ r.at = "Bind_CreateUser") =>
                 r.result.status = "err" /\ r.calls = <<"GetCluster", "CreateUser">>
            /\ (r.pc = "done" /\ r.at = "Unbind_DeleteUser" /\ r.result.status # "ok") =>
                 r.result.status = "err" /\ r.calls = <<"GetCluster", "DeleteUser">>
            /\ r.pc \in {"Bind_CreateUser", "Unbind_DeleteUser"} => r.calls = <<"GetCluster">>

\* A Bind has returned the error of a CreateUser that Atlas failed, after
\* the one call.
C20_Witness ==
    \E p \in Procs :
        /\ req[p].op = "Bind" /\ req[p].pc = "done"
        /\ req[p].at = "Bind_CreateUser"
        /\ req[p].result.err = "BackendError"
        /\ req[p].calls = <<"GetCluster", "CreateUser">>
        /\ req[p].bindingID \notin DOMAIN users

\* Atlas has created the user of the Bind in slot p.
Created(p) == req[p].op = "Bind" /\ req[p].clusterAtCreate # "none"

\* The users table after the Binds of the slots in order ran one after the
\* other, each to the end it reached, from the table us.
RECURSIVE Sequentially(_, _)
Sequentially(order, us) ==
    IF order = <<>> THEN us
    ELSE LET r == req[Head(order)]
             u == userFromParams(r.bindingID, r.password, r.details.RawParameters)
         IN  Sequentially(Tail(order),
                          IF Created(Head(order)) THEN WithUser(us, u.user) ELSE us)

\* C21: of two Binds with distinct binding IDs in flight together, on the
\* same instance or on two, each sends CreateUser the user named by its own
\* binding ID with its own generated password, the user it created is in
\* Atlas as it sent it, a successful answer carries that user's password,
\* no user but theirs exists, and the users table is the one the two Binds
\* produce run one after the other, in either order.
C21_ConcurrentBindsIsolated ==
    \A p, q \in Slots :
        (/\ p # q
         /\ req[p].op = "Bind" /\ req[q].op = "Bind"
         /\ req[p].bindingID # req[q].bindingID) =>
            LET r == req[p]
            IN  /\ Issued(r, "CreateUser") =>
                      /\ r.sent.Username = r.bindingID
                      /\ r.sent.Password = r.password
                /\ Created(p) =>
                      /\ r.bindingID \in DOMAIN users
                      /\ users[r.bindingID] = r.sent
                /\ (r.pc = "done" /\ r.result.status = "ok") =>
                      /\ Created(p)
                      /\ r.result.credentials.Username = r.bindingID
                      /\ r.result.credentials.Password = r.sent.Password
                      /\ r.result.credentials.Password = users[r.bindingID].Password
                /\ DOMAIN users = {req[s].bindingID : s \in {t \in {p, q} : Created(t)}}
                /\ users = Sequentially(<<p, q>>, EmptyValues)
                /\ users = Sequentially(<<q, p>>, EmptyValues)

\* Two Binds on the same instance, with distinct binding IDs and distinct
\* passwords, both answered with success, the second having generated its
\* password before the first created its user.
C21_Witness ==
    \E p, q \in Slots :
        /\ p # q
        /\ req[p].op = "Bind" /\ req[q].op = "Bind"
        /\ req[p].instanceID = req[q].instanceID
        /\ req[p].bindingID # req[q].bindingID
        /\ req[p].password # req[q].password
        /\ req[p].pc = "done" /\ req[p].result.status = "ok"
        /\ req[q].pc = "done" /\ req[q].result.status = "ok"
        /\ DOMAIN users = {req[p].bindingID, req[q].bindingID}

\* C22: whenever a Bind has returned success, the cluster of its instance
\* existed (Atlas still resolved it, in whatever state) at the moment Atlas
\* created the user of the binding, in every interleaving with a concurrent
\* Deprovision of the instance.
C22_ClusterExistsAtCreate ==
    \A p \in Slots :
        LET r == req[p]
        IN  (r.op = "Bind" /\ r.pc = "done" /\ r.result.status = "ok") =>
                r.clusterAtCreate # "ABSENT"

====
